---- MODULE Spec2Model ----
(***************************************************************************)
(* Verification model of the negotiation / sugarscape examples:            *)
(*   - get_dialogue_history   (examples/negotiation/agents.py)             *)
(*   - SellerAgent / BuyerAgent step and astep                             *)
(*   - SugarScapeModel.__init__ and SugarScapeModel.step                   *)
(* Each subsystem has its own specification over its own variables; the    *)
(* variables of the other subsystems are held at their idle values.        *)
(***************************************************************************)
EXTENDS Integers, Sequences, FiniteSets, TLC

(***************************************************************************)
(* Bounds of the model.                                                    *)
(***************************************************************************)
\* longest memory log drawn as an input of get_dialogue_history
MaxLog == 4
\* largest max_messages drawn as an input of get_dialogue_history
MaxMessages == 3
\* step() calls explored by the model per run
MaxSeedTicks == 2
\* parallel ticks explored by the model
MaxParallelTicks == 2
\* number of step() calls explored by the model
MaxTicks == 2
\* consecutive calls of get_dialogue_history on one agent
MaxCalls == 2
\* longest memory log of the agent whose step() and astep() are compared
MaxStepLog == 2
\* step() calls explored by the model of the trade protocol
MaxTradeTicks == 2

(***************************************************************************)
(* State                                                                   *)
(***************************************************************************)
\* get_dialogue_history (Part 1)
VARIABLES
    memory,        \* agent.memory: which stores it exposes and their entries
    max_messages,  \* the max_messages argument
    dpc,           \* "ready" before the first call, "returned" after a call
    calls,         \* number of calls made so far
    result,        \* the returned string
    dialogue,      \* the local list `dialogue` at the end of the loop (append order)
    examined,      \* positions (1-based, in the scanned store) whose content was inspected
    picked,        \* positions whose line was appended, in append order
    registry       \* agent.model.agents: the agents, where they stand and what they hold

dvars == <<memory, max_messages, dpc, calls, result, dialogue, examined, picked, registry>>

\* SugarScapeModel.step, sequential activation (Part 2)
VARIABLES
    tpc,                    \* "idle", "activating" (inside shuffle_do), "raised"
    steps,                  \* number of step() calls started
    order,                  \* the shuffled activation order of this tick
    idx,                    \* position in order of the next agent to activate
    capacity,               \* Resource.max_capacity
    rtype,                  \* Resource.type: "sugar" or "spice"
    amount,                 \* Resource.current_amount
    sugar,                  \* Trader.sugar
    spice,                  \* Trader.spice
    step_sugar_harvest,
    step_spice_harvest,
    total_sugar_harvested,
    total_spice_harvested,
    activated,              \* per agent: step() calls received in this tick
    regrown,                \* per resource: regrowths in this tick
    collected,              \* datacollector.collect calls in this tick
    reported,               \* the model reporters' values at the last collect
    failed,                 \* the agents whose decision request raised in this tick
    harvestedFrom,          \* the Resources a harvest was applied to in this tick
    quietBase,              \* per Resource: its amount when it was last harvested in a tick
    quietTicks,             \* per Resource: ticks returned since then without a harvest of it
    endowed,                \* per Trader: the sugar and spice __init__ gave it
    lastPlan                \* the plan the latest activation of a Trader applied

tvars == <<tpc, steps, order, idx, capacity, rtype, amount, sugar, spice,
           step_sugar_harvest, step_spice_harvest,
           total_sugar_harvested, total_spice_harvested,
           activated, regrown, collected, reported, failed,
           harvestedFrom, quietBase, quietTicks, endowed, lastPlan>>

\* astep under parallel stepping (Part 3)
VARIABLES
    ppc,        \* "idle" between ticks, "gathering" while the coroutines run
    pticks,     \* ticks started
    apc,        \* per agent: "created", "awaiting" (inside aplan), "done"
    amem,       \* per agent: agent.memory.short_term_memory
    pos,        \* per agent: its cell
    obs,        \* per agent: the observation it generated in this tick
    digest,     \* per agent: the dialogue_history it built in this tick
    applied,    \* agents whose plan has been applied in this tick, in order
    startMem,   \* amem when the tick started
    startPos    \* pos when the tick started

pvars == <<ppc, pticks, apc, amem, pos, obs, digest, applied, startMem, startPos>>

\* two seeded runs (Part 4)
VARIABLES
    args,   \* the constructor arguments, the same for both runs
    runs    \* per run: seed, process entropy, and the model it built

svars == <<args, runs>>

\* step() and astep() of one agent on two copies of the same model (Part 5)
VARIABLES
    who,      \* the agent whose step() and astep() run
    given,    \* the plan the decision-maker returns to both
    sworld,   \* the model step() runs in: memories, positions, budget, products
    aworld,   \* the model astep() runs in
    spc,      \* step(): "ready", "done"
    aspc,     \* astep(): "ready", "awaiting" (inside aplan), "done"
    strace,   \* the calls step() has made, in order
    atrace,   \* the calls astep() has made, in order
    sreq,     \* the decision request of step(): prompt, obs, selected_tools, and the
              \* dialogue_history the prompt was built from
    areq      \* the decision request of astep()

evars == <<who, given, sworld, aworld, spc, aspc, strace, atrace, sreq, areq>>

\* two Traders that harvest and trade with each other (Part 6)
VARIABLES
    xconf,       \* the tolerance (in 1/Scale of an MRS) and the iteration cap of a run
    endings,     \* how the negotiations of the run have ended so far
    xargs,       \* the constructor arguments of the model
    hold,        \* per Trader: sugar (units) and spice (in 1/Scale units)
    met,         \* per Trader: metabolism_sugar and metabolism_spice
    xpc,         \* "idle", "activating", "negotiating", "raised"
    xticks,      \* step() calls started
    todo,        \* the Traders still to be activated in this tick
    initiator,   \* the Trader whose activation runs the negotiation
    iter,        \* passes of the negotiation loop made in this negotiation
    executed,    \* increments executed in this negotiation
    xharvested,  \* whether a Trader has harvested in this tick
    tickTotals,  \* Total_Sugar and Total_Spice when the tick started
    negTotals,   \* the pair's sugar and spice when the negotiation started
    xreport      \* the last Total_Sugar and Total_Spice handed to the sink

xvars == <<xconf, endings, xargs, hold, met, xpc, xticks, todo, initiator, iter, executed,
           xharvested, tickTotals, negTotals, xreport>>

vars == <<dvars, tvars, pvars, svars, evars, xvars>>

\* the variables each subsystem leaves alone
notDialogue == <<tvars, pvars, svars, evars, xvars>>
notTick == <<dvars, pvars, svars, evars, xvars>>
notParallel == <<dvars, tvars, svars, evars, xvars>>
notSeed == <<dvars, tvars, pvars, evars, xvars>>
notStep == <<dvars, tvars, pvars, svars, xvars>>
notTrade == <<dvars, tvars, pvars, svars, evars>>

(***************************************************************************)
(* Part 1.  get_dialogue_history                                           *)
(***************************************************************************)
NoDialogue == "No recent dialogue."

\* agent.model.agents of the negotiation model: (type name, unique_id), in order
ModelAgents == << [kind |-> "SellerAgent", id |-> 1], [kind |-> "BuyerAgent", id |-> 2] >>

\* Values a "sender" key can hold.
SenderAgentObj(k, i) == [tag |-> "agent", kind |-> k, id |-> i, text |-> ""]
SenderInt(i)         == [tag |-> "int",   kind |-> "",  id |-> i, text |-> ""]
SenderOther(t)       == [tag |-> "other", kind |-> "",  id |-> 0, text |-> t]

\* entry.content values: a non-dict payload, or a dict with optional keys.
ContentText(t) ==
    [isDict |-> FALSE, hasMessage |-> FALSE, hasSender |-> FALSE,
     sender |-> SenderOther(""), message |-> t]
ContentDict(hasS, s, hasM, m) ==
    [isDict |-> TRUE, hasMessage |-> hasM, hasSender |-> hasS,
     sender |-> s, message |-> m]

\* The payloads memory entries are drawn from.
EntryPool ==
    { ContentText("moved to (1, 2)"),
      ContentDict(TRUE, SenderAgentObj("SellerAgent", 1), TRUE, "offer"),
      ContentDict(TRUE, SenderInt(2), TRUE, "deal"),
      ContentDict(TRUE, SenderInt(3), TRUE, "hello"),
      ContentDict(TRUE, SenderOther("Bob"), TRUE, "hey"),
      ContentDict(FALSE, SenderOther(""), TRUE, "anon"),
      ContentDict(TRUE, SenderInt(1), FALSE, "") }

Min(a, b) == IF a < b THEN a ELSE b
Max(a, b) == IF a > b THEN a ELSE b

\* All sequences over S of length 0..n
RECURSIVE SeqsUpTo(_, _)
SeqsUpTo(S, n) ==
    IF n = 0 THEN { <<>> }
    ELSE LET shorter == SeqsUpTo(S, n - 1)
         IN  shorter \cup { Append(s, e) : s \in { t \in shorter : Len(t) = n - 1 }, e \in S }

\* "\n".join(lines)
RECURSIVE Join(_)
Join(lines) ==
    IF Len(lines) = 0 THEN ""
    ELSE IF Len(lines) = 1 THEN lines[1]
    ELSE lines[1] \o "\n" \o Join(Tail(lines))

\* list.reverse()
Reverse(s) == [i \in 1..Len(s) |-> s[Len(s) + 1 - i]]

\* the selection falling through to the entry list when the buffer is empty
memory_source_FallThrough(mem) ==
    IF mem.hasSTM /\ Len(mem.short_term_memory) > 0 THEN mem.short_term_memory
    ELSE IF mem.hasEntries THEN mem.memory_entries
    ELSE <<>>

\* lines 25-29: capability inspection of agent.memory
memory_source(mem) ==
    IF mem.hasSTM THEN mem.short_term_memory
    ELSE IF mem.hasEntries THEN mem.memory_entries
    ELSE <<>>

\* line 31: `if memory_source:` (None and the empty store are both falsy)
Truthy(src) == Len(src) > 0

\* the window without the factor 2
entries_to_check_NoDoubling(src, maxm) == Min(Len(src), maxm)

\* line 35
entries_to_check(src, maxm) == Min(Len(src), maxm * 2)

\* line 37: first position (1-based) of list(memory_source)[-entries_to_check:]
\* Python: s[-n:] is the last n items for n > 0, the whole list for n = 0, and
\* s[m:] for n = -m < 0.
SliceStart(src, n) ==
    IF n > 0 THEN Max(Len(src) - n, 0) + 1
    ELSE Min(0 - n, Len(src)) + 1

\* retention without the "message" key test
IsRetained_AnyDict(content) == content.isDict

\* line 43
IsRetained(content) == content.isDict /\ content.hasMessage

\* the stop test with > in place of >=
EnoughCollected_OffByOne(dlg, maxm) == Len(dlg) > maxm

\* line 39
EnoughCollected(dlg, maxm) == Len(dlg) >= maxm

\* the lookup without the search among the model's agents
LookupKind_NoSearch(agents, id) == "Agent"

\* lines 54-60: next(a for a in agent.model.agents if a.unique_id == sender)
LookupKind(agents, id) ==
    LET hits == { i \in 1..Len(agents) : agents[i].id = id }
    IN  IF hits = {} THEN "Agent"
        ELSE agents[CHOOSE i \in hits : \A j \in hits : i <= j].kind

\* lines 44, 48-62
sender_name(content, agents) ==
    LET sender == IF content.hasSender THEN content.sender ELSE SenderOther("Unknown")
    IN  IF sender.tag = "agent" THEN sender.kind \o " " \o ToString(sender.id)
        ELSE IF sender.tag = "int" THEN LookupKind(agents, sender.id) \o " " \o ToString(sender.id)
        ELSE sender.text

\* lines 45, 64
FormatLine(content, agents) ==
    "- " \o sender_name(content, agents) \o ": " \o
    (IF content.hasMessage THEN content.message ELSE "")

\* lines 37-64: the loop over reversed(window), at position i (going down to lo)
RECURSIVE ScanLoop(_, _, _, _, _, _)
ScanLoop(src, i, lo, maxm, agents, acc) ==
    IF i < lo THEN acc
    ELSE IF EnoughCollected(acc.dialogue, maxm) THEN acc
    ELSE LET seen == [acc EXCEPT !.examined = @ \cup {i}]
         IN  IF IsRetained(src[i].content)
             THEN ScanLoop(src, i - 1, lo, maxm, agents,
                      [seen EXCEPT !.dialogue = Append(@, FormatLine(src[i].content, agents)),
                                   !.picked = Append(@, i)])
             ELSE ScanLoop(src, i - 1, lo, maxm, agents, seen)

EmptyScan == [dialogue |-> <<>>, examined |-> {}, picked |-> <<>>]

\* lines 22-64
Scan(mem, maxm, agents) ==
    LET src == memory_source(mem)
    IN  IF Truthy(src)
        THEN ScanLoop(src, Len(src), SliceStart(src, entries_to_check(src, maxm)),
                      maxm, agents, EmptyScan)
        ELSE EmptyScan

\* the return without the sentinel
FormatResult_NoSentinel(dlg) == Join(Reverse(dlg))

\* the return without the reversal of line 67
FormatResult_NoReverse(dlg) == IF Len(dlg) > 0 THEN Join(dlg) ELSE NoDialogue

\* lines 66-68
FormatResult(dlg) == IF Len(dlg) > 0 THEN Join(Reverse(dlg)) ELSE NoDialogue

\* lines 8-68
get_dialogue_history(mem, maxm, agents) == FormatResult(Scan(mem, maxm, agents).dialogue)

Entries(contents) == [i \in 1..Len(contents) |-> [content |-> contents[i]]]

Logs(n) == { Entries(c) : c \in SeqsUpTo(EntryPool, n) }

Memories ==
    { [hasSTM |-> TRUE, short_term_memory |-> l, hasEntries |-> FALSE, memory_entries |-> <<>>]
        : l \in Logs(MaxLog) }
    \cup
    { [hasSTM |-> FALSE, short_term_memory |-> <<>>, hasEntries |-> TRUE, memory_entries |-> l]
        : l \in Logs(MaxLog) }
    \cup
    { [hasSTM |-> TRUE, short_term_memory |-> s, hasEntries |-> TRUE, memory_entries |-> l]
        : s \in Logs(1), l \in Logs(1) }
    \cup
    { [hasSTM |-> FALSE, short_term_memory |-> <<>>, hasEntries |-> FALSE, memory_entries |-> <<>>] }

\* agent.model.agents with the attributes of the agents: the position, and the
\* sales of the SellerAgent (line 90) and the budget of the BuyerAgent (line 149)
AgentObjects ==
    << [kind |-> "SellerAgent", id |-> 1, pos |-> 0, inventory |-> 0],
       [kind |-> "BuyerAgent", id |-> 2, pos |-> 1, inventory |-> 2] >>

\* the objects a call works on when it starts: the store agent.memory exposes
\* (lines 25-29), agent.model.agents, the list `dialogue` of line 22 and the
\* list that line 37 will create
Objects(mem, agents) ==
    [store |-> memory_source(mem), agents |-> agents, window |-> <<>>, dialogue |-> <<>>]

\* line 37: list(memory_source)[-entries_to_check:] is a new list that holds
\* the entries of the store from position `first` on
list_slice(h, first) == [h EXCEPT !.window = SubSeq(h.store, first, Len(h.store))]

\* lines 37-64: the loop reads reversed(window), the newest entry first, and
\* appends to `dialogue`
scan_window(h, maxm) ==
    [h EXCEPT !.dialogue =
        ScanLoop(h.window, Len(h.window), 1, maxm, h.agents, EmptyScan).dialogue]

\* a reversal of the store, as memory_source.reverse() would do it
list_reverse_OfStore(h, obj) == [h EXCEPT !.store = Reverse(@)]

\* list.reverse() of the object obj, in place
list_reverse(h, obj) == [h EXCEPT ![obj] = Reverse(@)]

\* lines 22-67: the objects when the call returns
ObjectsAfterCall(mem, maxm, agents) ==
    LET h == Objects(mem, agents)
        looped == IF Truthy(h.store)
                  THEN scan_window(list_slice(h, SliceStart(h.store,
                                                 entries_to_check(h.store, maxm))), maxm)
                  ELSE h
    IN  list_reverse(looped, "dialogue")

\* line 68: the string returned from the list `dialogue`
ReturnValue(h) == IF Len(h.dialogue) > 0 THEN Join(h.dialogue) ELSE NoDialogue

\* agent.memory when the call returns: the store that lines 25-29 selected is
\* the object the call worked on, the other store was never referenced
StoreAfterCall(mem, h) ==
    IF mem.hasSTM /\ memory_source(mem) = mem.short_term_memory
    THEN [mem EXCEPT !.short_term_memory = h.store]
    ELSE IF mem.hasEntries /\ memory_source(mem) = mem.memory_entries
    THEN [mem EXCEPT !.memory_entries = h.store]
    ELSE mem

DialogueInit ==
    /\ memory \in Memories
    /\ max_messages \in (0 - 1)..MaxMessages
    /\ dpc = "ready"
    /\ calls = 0
    /\ result = ""
    /\ dialogue = <<>>
    /\ examined = {}
    /\ picked = <<>>
    /\ registry = AgentObjects

\* one call get_dialogue_history(agent, max_messages)
GetDialogueHistory ==
    /\ calls < MaxCalls
    /\ calls' = calls + 1
    /\ LET s == Scan(memory, max_messages, registry)
       IN  /\ dialogue' = s.dialogue
           /\ examined' = s.examined
           /\ picked' = s.picked
    /\ result' = get_dialogue_history(memory, max_messages, registry)
    /\ dpc' = "returned"
    /\ LET h == ObjectsAfterCall(memory, max_messages, registry)
       IN  /\ memory' = StoreAfterCall(memory, h)
           /\ registry' = h.agents
    /\ UNCHANGED max_messages
    /\ UNCHANGED notDialogue


(***************************************************************************)
(* Part 2.  SugarScapeModel.step with sequential activation                *)
(*                                                                         *)
(* Resource and Trader (examples/sugarscrap_g1mt/agents.py) are not among  *)
(* the source files; their step methods follow sections 4.2, 4.3 and 4.6   *)
(* of the specification.  A Trader's activation applies one plan: it waits *)
(* or asks a Resource for a quantity.                                      *)
(***************************************************************************)
\* model.agents of SugarScapeModel(initial_resources=2, initial_traders=1):
\* the Resources (created first) and the Trader
Resources == {"r1", "r2"}
Traders == {"t1"}
Agents == Resources \cup Traders

\* line 87: random.choice(["sugar", "spice"])
ResourceTypes == << "sugar", "spice" >>

\* line 92
Growback == 1
\* line 1: `import random`.  random.randint, random.choice and random.randrange
\* draw from the generator of the module (a Mersenne Twister), and so does
\* self.random = random.Random(seed) of Model.__init__, from a generator of its
\* own.  RandomWords(s) are the first 32-bit words the generator gives after it
\* is seeded with s, each cut to its leading WordBits bits.
WordBits == 8

\* the stream of the generator seeded with s
RandomWords(s) ==
    CASE s = 0 ->
         << 216, 98, 194, 227, 107, 10, 66, 247, 130, 124, 103, 235, 200, 212, 77, 247,
            122, 91, 149, 228, 232, 55, 129, 35, 72, 35, 193, 24, 158, 204, 64, 252,
            232, 136, 251, 180, 207, 154, 230, 37, 79, 25, 186, 18, 230, 217, 175, 84,
            120, 143, 25, 90, 111, 80, 156, 163, 233, 52, 247, 141, 122, 113, 221, 133 >>
      [] s = 1 ->
         << 34, 145, 216, 205, 195, 16, 65, 30, 126, 194, 115, 120, 166, 97, 201, 53,
            24, 124, 7, 228, 213, 99, 110, 155, 195, 196, 0, 178, 114, 68, 184, 205,
            58, 151, 241, 26, 230, 81, 7, 5, 6, 166, 138, 2, 240, 225, 97, 175,
            55, 248, 108, 185, 7, 135, 56, 195, 112, 240, 126, 141, 59, 88, 59, 173 >>
      [] s = 2 ->
         << 244, 220, 242, 217, 14, 23, 21, 92, 213, 43, 188, 207, 171, 218, 78, 64,
            155, 54, 155, 9, 148, 174, 40, 255, 110, 163, 100, 205, 185, 220, 254, 130,
            243, 95, 139, 239, 113, 128, 68, 230, 9, 222, 7, 93, 119, 238, 81, 232,
            97, 108, 228, 226, 134, 42, 143, 45, 60, 59, 6, 45, 83, 44, 34, 130 >>
      [] s = 3 ->
         << 60, 151, 139, 33, 94, 234, 154, 121, 160, 148, 16, 155, 3, 232, 214, 120,
            66, 141, 59, 49, 254, 183, 120, 138, 214, 140, 121, 101, 163, 220, 38, 59,
            162, 38, 222, 237, 133, 99, 189, 3, 171, 198, 16, 40, 194, 245, 151, 10,
            77, 199, 7, 210, 221, 68, 121, 152, 184, 235, 224, 99, 182, 201, 235, 109 >>
      [] s = 4 ->
         << 60, 77, 26, 184, 101, 122, 39, 23, 17, 5, 102, 140, 234, 74, 204, 253,
            195, 15, 56, 133, 137, 92, 70, 199, 44, 211, 27, 67, 54, 241, 237, 6,
            212, 164, 206, 66, 204, 69, 49, 42, 79, 74, 160, 222, 187, 245, 218, 217,
            225, 95, 22, 216, 155, 86, 171, 99, 129, 63, 45, 63, 121, 71, 22, 241 >>
      [] s = 5 ->
         << 159, 65, 189, 91, 203, 176, 241, 215, 189, 166, 236, 135, 7, 215, 119, 198,
            241, 63, 166, 13, 230, 40, 28, 95, 120, 222, 63, 97, 139, 26, 146, 63,
            3, 187, 55, 104, 71, 46, 234, 222, 196, 99, 40, 195, 204, 18, 35, 158,
            158, 113, 32, 33, 0, 248, 223, 1, 53, 198, 55, 245, 251, 42, 223, 42 >>
      [] s = 6 ->
         << 203, 146, 210, 20, 124, 195, 66, 9, 0, 37, 169, 150, 120, 247, 194, 188,
            95, 81, 197, 5, 69, 125, 205, 50, 186, 223, 105, 233, 137, 138, 174, 24,
            49, 144, 141, 179, 206, 186, 67, 169, 205, 156, 175, 22, 216, 108, 85, 253,
            23, 92, 204, 104, 206, 64, 113, 179, 24, 193, 50, 179, 162, 203, 74, 24 >>
      [] s = 7 ->
         << 82, 242, 38, 101, 166, 12, 18, 210, 137, 24, 93, 149, 14, 232, 129, 54,
            9, 22, 111, 107, 17, 61, 23, 141, 108, 15, 211, 144, 31, 242, 57, 161,
            160, 149, 242, 15, 147, 149, 101, 12, 249, 56, 11, 142, 219, 34, 74, 107,
            36, 138, 30, 146, 78, 143, 208, 174, 46, 26, 148, 146, 163, 48, 95, 24 >>
      [] s = 8 ->
         << 58, 94, 246, 96, 32, 49, 180, 11, 21, 35, 63, 207, 255, 129, 53, 102,
            164, 7, 117, 124, 116, 99, 126, 146, 49, 229, 212, 103, 22, 124, 59, 194,
            5, 179, 68, 133, 104, 121, 230, 233, 97, 185, 29, 169, 66, 24, 253, 208,
            16, 98, 158, 212, 96, 27, 169, 14, 86, 60, 176, 22, 127, 231, 166, 132 >>
      [] s = 9 ->
         << 118, 156, 95, 68, 35, 47, 221, 173, 1, 86, 128, 118, 229, 154, 20, 85,
            141, 239, 157, 179, 10, 186, 97, 43, 180, 242, 115, 243, 185, 108, 40, 43,
            60, 13, 28, 33, 129, 223, 236, 253, 151, 16, 198, 176, 98, 202, 191, 227,
            26, 235, 74, 52, 172, 57, 185, 203, 107, 227, 22, 197, 68, 233, 53, 101 >>
      [] s = 10 ->
         << 146, 8, 109, 123, 147, 3, 52, 118, 208, 125, 210, 71, 167, 207, 41, 8,
            133, 125, 83, 19, 63, 243, 243, 190, 255, 92, 11, 107, 220, 35, 154, 90,
            97, 107, 72, 211, 172, 67, 116, 44, 175, 77, 169, 92, 34, 116, 196, 220,
            251, 61, 248, 112, 157, 96, 11, 149, 1, 60, 34, 49, 240, 232, 77, 137 >>
      [] s = 11 ->
         << 115, 221, 143, 219, 236, 199, 119, 115, 130, 218, 150, 48, 47, 205, 131, 121,
            161, 157, 203, 47, 24, 114, 77, 36, 23, 137, 207, 227, 177, 162, 10, 152,
            251, 101, 246, 115, 167, 189, 157, 166, 40, 159, 3, 212, 135, 16, 15, 9,
            48, 225, 61, 153, 7, 199, 118, 83, 112, 151, 215, 50, 132, 59, 163, 75 >>
      [] s = 12 ->
         << 121, 68, 168, 135, 170, 89, 36, 97, 2, 255, 95, 123, 70, 164, 207, 117,
            176, 221, 153, 58, 142, 0, 169, 159, 37, 250, 112, 94, 41, 86, 231, 53,
            15, 147, 209, 51, 19, 131, 175, 209, 86, 174, 103, 204, 215, 22, 4, 235,
            15, 209, 234, 169, 130, 57, 23, 253, 252, 108, 242, 113, 28, 169, 108, 248 >>
      [] s = 13 ->
         << 66, 74, 175, 232, 175, 205, 217, 227, 47, 166, 59, 170, 37, 222, 57, 164,
            187, 47, 33, 18, 136, 216, 54, 190, 75, 7, 110, 32, 214, 175, 155, 255,
            3, 254, 70, 213, 37, 21, 223, 203, 207, 227, 206, 67, 211, 115, 190, 111,
            243, 35, 203, 224, 65, 91, 217, 59, 124, 229, 193, 140, 144, 251, 109, 171 >>
      [] s = 14 ->
         << 27, 157, 179, 193, 166, 134, 240, 63, 69, 188, 65, 74, 187, 18, 168, 115,
            77, 119, 175, 223, 101, 100, 199, 232, 30, 67, 57, 222, 230, 80, 91, 206,
            66, 92, 205, 161, 161, 132, 38, 41, 141, 170, 169, 70, 42, 2, 166, 17,
            31, 152, 86, 7, 21, 70, 52, 218, 250, 97, 103, 149, 253, 239, 112, 229 >>
      [] s = 15 ->
         << 247, 53, 2, 133, 188, 9, 40, 233, 252, 61, 4, 14, 225, 206, 174, 37,
            219, 177, 255, 94, 61, 29, 86, 119, 181, 91, 71, 100, 67, 88, 58, 239,
            219, 52, 223, 90, 204, 80, 57, 78, 236, 186, 130, 107, 59, 147, 116, 215,
            107, 125, 20, 118, 144, 204, 92, 112, 145, 80, 238, 177, 165, 115, 103, 198 >>
      [] s = 42 ->
         << 163, 28, 6, 189, 70, 62, 57, 35, 188, 26, 173, 189, 228, 139, 22, 151,
            108, 8, 7, 23, 55, 59, 129, 154, 6, 143, 50, 183, 166, 179, 139, 107,
            56, 114, 150, 71, 207, 222, 1, 194, 206, 40, 178, 108, 87, 71, 39, 55,
            245, 195, 86, 26, 23, 97, 24, 91, 216, 88, 154, 67, 206, 11, 186, 117 >>
      [] s = 17688 ->
         << 115, 211, 5, 218, 21, 195, 10, 6, 114, 57, 199, 40, 220, 85, 35, 180,
            93, 5, 106, 252, 228, 194, 77, 235, 185, 91, 44, 201, 106, 113, 160, 174,
            2, 79, 164, 77, 143, 33, 218, 167, 9, 239, 250, 250, 189, 131, 5, 75,
            35, 42, 82, 158, 88, 107, 135, 231, 110, 195, 101, 241, 35, 22, 50, 0 >>

\* states the generator of the `random` module is in when __init__ starts:
\* those random.seed(e) puts it in
Entropies == 0..15 \cup { 17688 }

Pow2(k) == 2 ^ k

\* int.bit_length() of an n below 2 ^ WordBits
BitLength(n) == CHOOSE k \in 0..WordBits : n < Pow2(k) /\ (k = 0 \/ Pow2(k - 1) <= n)

\* getrandbits(k), k <= WordBits, of the word at position `at` of the stream of
\* the generator seeded with s: the leading k bits
getrandbits(s, at, k) == RandomWords(s)[at] \div Pow2(WordBits - k)

\* Random._randbelow(n): getrandbits(n.bit_length()) until the value is below
\* n.  `next` is the position of the first word not consumed.
RECURSIVE randbelow(_, _, _)
randbelow(s, at, n) ==
    LET r == getrandbits(s, at, BitLength(n))
    IN  IF r < n THEN [value |-> r, next |-> at + 1] ELSE randbelow(s, at + 1, n)

\* random.randint(lo, hi)
randint(s, at, lo, hi) ==
    LET d == randbelow(s, at, hi - lo + 1)
    IN  [value |-> lo + d.value, next |-> d.next]

\* line 44: Model.__init__(seed=seed) sets self.rng = numpy.random.default_rng(seed),
\* a PCG64 generator seeded through SeedSequence.  RngWords[sd] are the first
\* 32-bit values it hands out, each as << upper 16 bits, lower 16 bits >>.
RngWords(sd) ==
    CASE sd = 7 ->
         << <<61925, 19083>>, <<40966, 16809>>, <<44838, 27285>>, <<58799, 52668>>,
            <<37898, 63842>>, <<50835, 22111>>, <<54634, 10050>>, <<14759, 11691>>,
            <<3639, 20805>>, <<19671, 45721>>, <<18682, 10036>>, <<57249, 13015>>,
            <<59809, 44144>>, <<345, 4390>>, <<32754, 1757>>, <<53820, 1679>> >>
      [] sd = 42 ->
         << <<5849, 9864>>, <<50721, 64461>>, <<42897, 65473>>, <<28762, 22113>>,
            <<28378, 5668>>, <<56269, 4802>>, <<5632, 34957>>, <<45702, 46606>>,
            <<13203, 33259>>, <<6172, 437>>, <<34503, 21388>>, <<63938, 25325>>,
            <<48218, 17521>>, <<49882, 3375>>, <<47020, 38720>>, <<51515, 33443>> >>

HalfWord == 65536

\* Generator.integers: one value of 0..n-1 by Lemire's method on a 32-bit value
\* w: the upper 32 bits of w * n, drawn again while the lower 32 bits are below
\* 2^32 mod n.  A range of one value consumes nothing.
RECURSIVE rng_below(_, _, _)
rng_below(sd, at, n) ==
    IF n = 1 THEN [value |-> 0, next |-> at]
    ELSE LET w == RngWords(sd)[at]
             upper == w[1] * n + (w[2] * n) \div HalfWord
             leftover_hi == upper % HalfWord
             leftover_lo == (w[2] * n) % HalfWord
             threshold == ((HalfWord % n) * (HalfWord % n)) % n
         IN  IF leftover_hi = 0 /\ leftover_lo < threshold
             THEN rng_below(sd, at + 1, n)
             ELSE [value |-> upper \div HalfWord, next |-> at + 1]

\* self.rng.integers(0, n, size=(count,)): count values, one after the other
RECURSIVE integers(_, _, _, _)
integers(sd, at, n, count) ==
    IF count = 0 THEN [values |-> <<>>, next |-> at]
    ELSE LET d == rng_below(sd, at, n)
             rest == integers(sd, d.next, n, count - 1)
         IN  [values |-> <<d.value>> \o rest.values, next |-> rest.next]

\* the draws of one Resource with x drawn as by random.randint(0, width)
ResourceRanges_InclusiveWidth(a) ==
    << <<2, 5>>, <<0, Len(ResourceTypes) - 1>>, <<0, a.width>>, <<0, a.height - 1>> >>

\* lines 86, 87, 96 and 97: the draws of one Resource, each as its lowest and
\* highest value (random.choice draws an index, random.randrange(n) one of 0..n-1)
ResourceRanges(a) ==
    << <<2, 5>>, <<0, Len(ResourceTypes) - 1>>, <<0, a.width - 1>>, <<0, a.height - 1>> >>

\* the draws of one Trader with the metabolisms drawn as by random.randrange(4)
TraderRanges_ZeroMetabolism == << <<50, 100>>, <<50, 100>>, <<0, 3>>, <<0, 3>> >>

\* lines 124-127: the draws of one Trader
TraderRanges == << <<50, 100>>, <<50, 100>>, <<1, 4>>, <<1, 4>> >>

RECURSIVE Repeat(_, _)
Repeat(x, n) == IF n = 0 THEN <<>> ELSE x \o Repeat(x, n - 1)

\* lines 85-127: every draw __init__ takes from the `random` module, in order:
\* those of each Resource, then those of each Trader
ConstructionRanges(a) ==
    Repeat(ResourceRanges(a), a.initial_resources) \o Repeat(TraderRanges, a.initial_traders)

\* the values of the draws from the k-th on, the stream being at position `at`
RECURSIVE DrawAll(_, _, _, _)
DrawAll(e, at, ranges, k) ==
    IF k > Len(ranges) THEN <<>>
    ELSE LET d == randint(e, at, ranges[k][1], ranges[k][2])
         IN  <<d.value>> \o DrawAll(e, d.next, ranges, k + 1)

\* the values __init__ draws when the generator starts in state e
ConstructionDraws(e, a) == DrawAll(e, 1, ConstructionRanges(a), 1)

\* line 91: current_amount=max_cap
InitialAmount(max_cap) == max_cap

\* lines 85-99: the i-th Resource (i from 0), d being the draws of __init__
\* from the `random` module
BuildResource(d, i, a) ==
    LET k == Len(ResourceRanges(a)) * i
    IN  [max_capacity |-> d[k + 1],
         current_amount |-> InitialAmount(d[k + 1]),
         growback |-> Growback,
         type |-> ResourceTypes[1 + d[k + 2]],
         pos |-> << d[k + 3], d[k + 4] >>]

\* lines 124-127: sugar, spice and the metabolisms of the j-th Trader (j from
\* 0), drawn after every Resource and the Traders before it
TraderAttributes(d, j, a) ==
    LET k == Len(ResourceRanges(a)) * a.initial_resources + Len(TraderRanges) * j
    IN  [sugar |-> d[k + 1], spice |-> d[k + 2],
         metabolism_sugar |-> d[k + 3], metabolism_spice |-> d[k + 4]]

\* lines 120-131: the j-th Trader (j from 0): position from x_pos and y_pos,
\* which self.rng fills one array after the other, the rest from the `random`
\* module
BuildTrader(sd, d, j, a) ==
    LET t == TraderAttributes(d, j, a)
        x_pos == integers(sd, 1, a.width, a.initial_traders)
        y_pos == integers(sd, x_pos.next, a.height, a.initial_traders)
    IN  [sugar |-> t.sugar,
         spice |-> t.spice,
         metabolism_sugar |-> t.metabolism_sugar,
         metabolism_spice |-> t.metabolism_spice,
         pos |-> << x_pos.values[j + 1], y_pos.values[j + 1] >>]

\* the place of a Resource in the creation order of lines 85-99
ResourceIndex == ("r1" :> 0) @@ ("r2" :> 1)

\* the place of a Trader in the creation order of lines 122-131
TraderIndex == ("t1" :> 0) @@ ("t2" :> 1)

\* SugarScapeModel(initial_resources=2, initial_traders=1, width=2, height=2)
TickArgs ==
    [initial_resources |-> Cardinality(Resources), initial_traders |-> Cardinality(Traders),
     width |-> 2, height |-> 2]

\* shuffle_do: every ordering of the agents
Orders ==
    { f \in [1..Cardinality(Agents) -> Agents] :
        \A i, j \in 1..Cardinality(Agents) : i # j => f[i] # f[j] }

\* no Trader has been activated yet
NoPlan == [kind |-> "none", target |-> "r1", requested |-> 0]

NoReport == [Trader_Count |-> 0, Total_Sugar |-> 0, Total_Spice |-> 0,
             Step_Sugar_Harvest |-> 0, Step_Spice_Harvest |-> 0]

RECURSIVE SumOver(_, _)
SumOver(f, S) ==
    IF S = {} THEN 0
    ELSE LET x == CHOOSE y \in S : TRUE IN f[x] + SumOver(f, S \ {x})

\* lines 55-72: the model reporters
ModelReport ==
    [Trader_Count |-> Cardinality(Traders),
     Total_Sugar |-> SumOver(sugar, Traders),
     Total_Spice |-> SumOver(spice, Traders),
     Step_Sugar_Harvest |-> step_sugar_harvest,
     Step_Spice_Harvest |-> step_spice_harvest]

\* lines 50-53, 85-131: the model after construction
TickInit ==
    /\ tpc = "idle"
    /\ steps = 0
    /\ order = <<>>
    /\ idx = 1
    /\ \E e \in Entropies :
          LET d == ConstructionDraws(e, TickArgs)
              made == [r \in Resources |-> BuildResource(d, ResourceIndex[r], TickArgs)]
              built == [t \in Traders |-> TraderAttributes(d, TraderIndex[t], TickArgs)]
          IN
          /\ capacity = [r \in Resources |-> made[r].max_capacity]
          /\ rtype = [r \in Resources |-> made[r].type]
          /\ amount = [r \in Resources |-> made[r].current_amount]
          /\ sugar = [t \in Traders |-> built[t].sugar]
          /\ spice = [t \in Traders |-> built[t].spice]
          /\ endowed = [t \in Traders |->
                           [sugar |-> built[t].sugar, spice |-> built[t].spice]]
    /\ step_sugar_harvest = 0
    /\ step_spice_harvest = 0
    /\ total_sugar_harvested = 0
    /\ total_spice_harvested = 0
    /\ activated = [a \in Agents |-> 0]
    /\ regrown = [r \in Resources |-> 0]
    /\ collected = 0
    /\ reported = NoReport
    /\ failed = {}
    /\ harvestedFrom = {}
    /\ quietBase = amount
    /\ quietTicks = [r \in Resources |-> 0]
    /\ lastPlan = NoPlan

\* lines 138-145: step() resets the per-tick counters and shuffle_do draws the order
StepBegin ==
    /\ tpc = "idle"
    /\ UNCHANGED notTick
    /\ UNCHANGED lastPlan
    /\ steps < MaxTicks
    /\ steps' = steps + 1
    /\ step_sugar_harvest' = 0
    /\ step_spice_harvest' = 0
    /\ order' \in Orders
    /\ idx' = 1
    /\ activated' = [a \in Agents |-> 0]
    /\ regrown' = [r \in Resources |-> 0]
    /\ collected' = 0
    /\ failed' = {}
    /\ harvestedFrom' = {}
    /\ tpc' = "activating"
    /\ UNCHANGED <<capacity, rtype, amount, sugar, spice, total_sugar_harvested,
                   total_spice_harvested, reported, quietBase, quietTicks, endowed>>

\* Resource.regrow (specification 4.2)
Regrow(cur, cap) == Min(cap, cur + Growback)

\* shuffle_do("step") reaches a Resource: Resource.step regrows it
ActivateResource ==
    /\ tpc = "activating"
    /\ UNCHANGED notTick
    /\ UNCHANGED lastPlan
    /\ idx <= Len(order)
    /\ order[idx] \in Resources
    /\ LET r == order[idx]
       IN  /\ amount' = [amount EXCEPT ![r] = Regrow(amount[r], capacity[r])]
           /\ regrown' = [regrown EXCEPT ![r] = @ + 1]
           /\ activated' = [activated EXCEPT ![r] = @ + 1]
    /\ idx' = idx + 1
    /\ UNCHANGED <<tpc, steps, order, capacity, rtype, sugar, spice, step_sugar_harvest,
                   step_spice_harvest, total_sugar_harvested, total_spice_harvested,
                   collected, reported, failed, harvestedFrom, quietBase, quietTicks,
                   endowed>>

\* a harvest that hands out the requested quantity whatever the Resource holds
Harvested_Unclamped(requested, cur) == requested

\* Resource.harvest (specification 4.2): the quantity handed out, which is 0
\* from an exhausted Resource
Harvested(requested, cur) == Min(requested, cur)

\* the quantities a harvest requests: one unit, and quantities above what a
\* Resource of capacity 2 and what any Resource can hold
Requests == { 1, 3, 6 }

\* the plans the decision-maker can return to a Trader
Plans == { [kind |-> "wait", target |-> "r1", requested |-> 0] }
            \cup { [kind |-> "harvest", target |-> r, requested |-> q]
                        : r \in Resources, q \in Requests }

\* apply_plan of a Trader (specification 4.3, harvest_at)
ApplyPlan(t, plan) ==
    IF plan.kind = "harvest"
    THEN LET r == plan.target
             got == Harvested(plan.requested, amount[r])
         IN  /\ amount' = [amount EXCEPT ![r] = @ - got]
             /\ harvestedFrom' = harvestedFrom \cup {r}
             /\ IF rtype[r] = "sugar"
                THEN /\ sugar' = [sugar EXCEPT ![t] = @ + got]
                     /\ step_sugar_harvest' = step_sugar_harvest + got
                     /\ total_sugar_harvested' = total_sugar_harvested + got
                     /\ UNCHANGED <<spice, step_spice_harvest, total_spice_harvested>>
                ELSE /\ spice' = [spice EXCEPT ![t] = @ + got]
                     /\ step_spice_harvest' = step_spice_harvest + got
                     /\ total_spice_harvested' = total_spice_harvested + got
                     /\ UNCHANGED <<sugar, step_sugar_harvest, total_sugar_harvested>>
    ELSE UNCHANGED <<amount, sugar, spice, step_sugar_harvest, step_spice_harvest,
                     total_sugar_harvested, total_spice_harvested, harvestedFrom>>

\* agents.py lines 93-109 with a plan returned: observe, dialogue, plan, apply_plan
ActivateTrader ==
    /\ tpc = "activating"
    /\ UNCHANGED notTick
    /\ idx <= Len(order)
    /\ order[idx] \in Traders
    /\ \E plan \in Plans : ApplyPlan(order[idx], plan) /\ lastPlan' = plan
    /\ activated' = [activated EXCEPT ![order[idx]] = @ + 1]
    /\ idx' = idx + 1
    /\ UNCHANGED <<tpc, steps, order, capacity, rtype, regrown, collected, reported,
                   failed, quietBase, quietTicks, endowed>>

\* agents.py lines 106-108 raising: nothing in the agent's step, in shuffle_do
\* (model.py line 145) or in step() catches it, so step() is left at once
ActivateTraderNoDecision ==
    /\ tpc = "activating"
    /\ UNCHANGED notTick
    /\ lastPlan' = NoPlan
    /\ idx <= Len(order)
    /\ order[idx] \in Traders
    /\ activated' = [activated EXCEPT ![order[idx]] = @ + 1]
    /\ failed' = failed \cup { order[idx] }
    /\ tpc' = "raised"
    /\ UNCHANGED <<steps, order, idx, capacity, rtype, amount, sugar, spice,
                   step_sugar_harvest, step_spice_harvest, total_sugar_harvested,
                   total_spice_harvested, regrown, collected, reported,
                   harvestedFrom, quietBase, quietTicks, endowed>>

\* line 147: datacollector.collect(self), then step() returns and the list
\* shuffle_do iterated is gone
Collect ==
    /\ tpc = "activating"
    /\ UNCHANGED notTick
    /\ UNCHANGED lastPlan
    /\ idx > Len(order)
    /\ order' = <<>>
    /\ idx' = 1
    /\ collected' = collected + 1
    /\ reported' = ModelReport
    /\ tpc' = "idle"
    /\ quietBase' = [r \in Resources |->
                        IF r \in harvestedFrom THEN amount[r] ELSE quietBase[r]]
    /\ quietTicks' = [r \in Resources |->
                         IF r \in harvestedFrom THEN 0 ELSE quietTicks[r] + 1]
    /\ UNCHANGED <<steps, capacity, rtype, amount, sugar, spice,
                   step_sugar_harvest, step_spice_harvest, total_sugar_harvested,
                   total_spice_harvested, activated, regrown, failed, harvestedFrom,
                   endowed>>

TickNext ==
    \/ StepBegin
    \/ ActivateResource
    \/ ActivateTrader
    \/ ActivateTraderNoDecision
    \/ Collect

(***************************************************************************)
(* Part 3.  SellerAgent.astep / BuyerAgent.astep under parallel stepping   *)
(*                                                                         *)
(* The driver that runs the astep coroutines of one tick (mesa_llm         *)
(* parallel stepping) and the tools behind apply_plan are not among the    *)
(* source files.  The driver is one cooperative event loop that gathers    *)
(* the coroutines of all agents: every coroutine runs up to its await      *)
(* before any suspended coroutine is resumed, and a coroutine whose await  *)
(* does not suspend runs straight through apply_plan.                      *)
(***************************************************************************)
\* unique_id of the agents of the model
AgentIds == { ModelAgents[n].id : n \in 1..Len(ModelAgents) }
KindOf(a) == LookupKind(ModelAgents, a)

\* cells of the grid the buyer can teleport to
Cells == { 0, 1 }

\* agents.py lines 125 and 191: selected_tools
SelectedTools(a) ==
    IF KindOf(a) = "SellerAgent" THEN { "speak_to" }
    ELSE { "teleport_to_location", "speak_to", "buy_product" }

\* the plans the decision-maker can return to agent a
AllPlans(a) ==
    { [tool |-> "speak_to", to |-> b, message |-> m, cell |-> 0]
        : b \in AgentIds \ {a}, m \in { "offer" } }
    \cup
    { [tool |-> "teleport_to_location", to |-> a, message |-> "", cell |-> c]
        : c \in Cells }

PlansFor(a) == { p \in AllPlans(a) : p.tool \in SelectedTools(a) }

\* agent.memory of an LLM agent: a short-term buffer
MemoryOf(log) ==
    [hasSTM |-> TRUE, short_term_memory |-> log, hasEntries |-> FALSE, memory_entries |-> <<>>]

\* default of max_messages (agents.py line 8)
DefaultMaxMessages == 5

\* agents.py lines 113 and 176
DialogueHistoryOf(log) == get_dialogue_history(MemoryOf(log), DefaultMaxMessages, ModelAgents)

\* speak_to stores the message, with the speaker's id as sender, in the recipient's memory
SpokenEntry(a, m) == [content |-> ContentDict(TRUE, SenderInt(a), TRUE, m)]

ParallelInit ==
    /\ ppc = "idle"
    /\ pticks = 0
    /\ apc = [a \in AgentIds |-> "done"]
    /\ amem = [a \in AgentIds |-> <<>>]
    /\ pos = [a \in AgentIds |-> 0]
    /\ obs = [a \in AgentIds |-> [a2 \in AgentIds |-> 0]]
    /\ digest = [a \in AgentIds |-> ""]
    /\ applied = <<>>
    /\ startMem = [a \in AgentIds |-> <<>>]
    /\ startPos = [a \in AgentIds |-> 0]

\* the driver creates one astep coroutine per agent
GatherBegin ==
    /\ ppc = "idle"
    /\ UNCHANGED notParallel
    /\ pticks < MaxParallelTicks
    /\ pticks' = pticks + 1
    /\ ppc' = "gathering"
    /\ apc' = [a \in AgentIds |-> "created"]
    /\ applied' = <<>>
    /\ startMem' = amem
    /\ startPos' = pos
    /\ UNCHANGED <<amem, pos, obs, digest>>

\* apply_plan: the tool call of the plan
ApplyTool(a, plan) ==
    IF plan.tool = "speak_to"
    THEN /\ amem' = [amem EXCEPT ![plan.to] = Append(@, SpokenEntry(a, plan.message))]
         /\ UNCHANGED pos
    ELSE /\ pos' = [pos EXCEPT ![a] = plan.cell]
         /\ UNCHANGED amem

\* agents.py lines 112-126 / 175-192: observe, build the digest, await aplan (suspended)
AStepAwait(a) ==
    /\ ppc = "gathering"
    /\ UNCHANGED notParallel
    /\ apc[a] = "created"
    /\ obs' = [obs EXCEPT ![a] = pos]
    /\ digest' = [digest EXCEPT ![a] = DialogueHistoryOf(amem[a])]
    /\ apc' = [apc EXCEPT ![a] = "awaiting"]
    /\ UNCHANGED <<ppc, pticks, amem, pos, applied, startMem, startPos>>

\* agents.py lines 112-127 / 175-193 when aplan returns without suspending
AStepStraightThrough(a) ==
    /\ ppc = "gathering"
    /\ UNCHANGED notParallel
    /\ apc[a] = "created"
    /\ obs' = [obs EXCEPT ![a] = pos]
    /\ digest' = [digest EXCEPT ![a] = DialogueHistoryOf(amem[a])]
    /\ \E plan \in PlansFor(a) : ApplyTool(a, plan)
    /\ applied' = Append(applied, a)
    /\ apc' = [apc EXCEPT ![a] = "done"]
    /\ UNCHANGED <<ppc, pticks, startMem, startPos>>

\* agents.py lines 127 / 193: aplan returned, the coroutine resumes with apply_plan
AStepResume(a) ==
    /\ ppc = "gathering"
    /\ UNCHANGED notParallel
    /\ apc[a] = "awaiting"
    /\ \A b \in AgentIds : apc[b] # "created"
    /\ \E plan \in PlansFor(a) : ApplyTool(a, plan)
    /\ applied' = Append(applied, a)
    /\ apc' = [apc EXCEPT ![a] = "done"]
    /\ UNCHANGED <<ppc, pticks, obs, digest, startMem, startPos>>

\* every coroutine has finished: the tick is over
GatherEnd ==
    /\ ppc = "gathering"
    /\ UNCHANGED notParallel
    /\ \A a \in AgentIds : apc[a] = "done"
    /\ ppc' = "idle"
    /\ UNCHANGED <<pticks, apc, amem, pos, obs, digest, applied, startMem, startPos>>

ParallelNext ==
    \/ GatherBegin
    \/ \E a \in AgentIds : AStepAwait(a)
    \/ \E a \in AgentIds : AStepStraightThrough(a)
    \/ \E a \in AgentIds : AStepResume(a)
    \/ GatherEnd

(***************************************************************************)
(* Part 4.  Two runs of SugarScapeModel.__init__ and step under a seed     *)
(*                                                                         *)
(* Model.__init__(seed=seed) seeds the model's own generators (self.random *)
(* and self.rng).  The module-level functions random.randint,              *)
(* random.choice and random.randrange draw from the generator of the       *)
(* `random` module, which the interpreter seeds from operating-system      *)
(* entropy when the process starts and which nothing here re-seeds.        *)
(***************************************************************************)
Runs == { 1, 2 }
\* seeds passed to the constructor
Seeds == { 7, 42 }
\* line 48: MultiGrid(width, height, torus=False), every cell empty
GridCells(a) == { <<x, y>> : x \in 0..(a.width - 1), y \in 0..(a.height - 1) }
EmptyGrid(a) == [raised |-> FALSE, cells |-> [c \in GridCells(a) |-> <<>>]]

\* lines 99 and 131: grid.place_agent(agent, (x, y)) appends the agent to the
\* list of cell (x, y); a coordinate outside the grid raises (IndexError), and
\* so does every call that would have followed it
place_agent(g, id, p) ==
    IF g.raised \/ p \notin DOMAIN g.cells THEN [g EXCEPT !.raised = TRUE]
    ELSE [g EXCEPT !.cells[p] = Append(@, id)]

\* the cell list without the agent
RECURSIVE Without(_, _)
Without(lst, id) ==
    IF Len(lst) = 0 THEN <<>>
    ELSE IF Head(lst) = id THEN Without(Tail(lst), id)
    ELSE <<Head(lst)>> \o Without(Tail(lst), id)

\* a run before its model is constructed
NotBuilt(sd, e) ==
    [seed |-> sd, entropy |-> e, built |-> FALSE, raised |-> FALSE,
     resources |-> <<>>, traders |-> <<>>, grid |-> <<>>, steps |-> 0, order |-> <<>>]

\* lines 99 and 131: the agents placed one after the other, ids from `first`
RECURSIVE PlaceAll(_, _, _, _)
PlaceAll(g, agents, i, first) ==
    IF i > Len(agents) THEN g
    ELSE PlaceAll(place_agent(g, first + i - 1, agents[i].pos), agents, i + 1, first)

\* the grids of the runs: a square one, a wide one and a tall one
Grids == { [width |-> 2, height |-> 2], [width |-> 3, height |-> 2],
           [width |-> 2, height |-> 3] }

SeedInit ==
    /\ \E g \in Grids :
          args \in [initial_resources : {1, 2}, initial_traders : {1, 2},
                    width : {g.width}, height : {g.height}]
    /\ \E sd \in Seeds : runs \in [Runs -> { NotBuilt(sd, e) : e \in Entropies }]

\* lines 85-99: the first n Resources, in creation order
RECURSIVE BuildResources(_, _, _)
BuildResources(d, n, a) ==
    IF n = 0 THEN <<>> ELSE Append(BuildResources(d, n - 1, a), BuildResource(d, n - 1, a))

\* lines 109-131: the first n Traders, in creation order
RECURSIVE BuildTraders(_, _, _, _)
BuildTraders(sd, d, n, a) ==
    IF n = 0 THEN <<>>
    ELSE Append(BuildTraders(sd, d, n - 1, a), BuildTrader(sd, d, n - 1, a))

\* lines 44-131: SugarScapeModel(..., seed=runs[r].seed)
Construct(r) ==
    /\ ~runs[r].built
    /\ ~runs[r].raised
    /\ UNCHANGED notSeed
    /\ LET m == runs[r]
           d == ConstructionDraws(m.entropy, args)
           rs == BuildResources(d, args.initial_resources, args)
           ts == BuildTraders(m.seed, d, args.initial_traders, args)
           placed == PlaceAll(PlaceAll(EmptyGrid(args), rs, 1, 1), ts, 1, Len(rs) + 1)
       IN  runs' = [runs EXCEPT ![r] =
                      IF placed.raised
                      THEN [m EXCEPT !.raised = TRUE]
                      ELSE [m EXCEPT !.built = TRUE,
                                     !.resources = rs,
                                     !.traders = ts,
                                     !.grid = placed.cells]]
    /\ UNCHANGED args

\* random.shuffle: positions i, i-1, ..., 2 are each swapped with a drawn
\* position of 1..i; `at` is the position of the stream of self.random
RECURSIVE Shuffle(_, _, _, _)
Shuffle(x, i, sd, at) ==
    IF i < 2 THEN [order |-> x, next |-> at]
    ELSE LET d == randbelow(sd, at, i)
             j == 1 + d.value
         IN  Shuffle([x EXCEPT ![i] = x[j], ![j] = x[i]], i - 1, sd, d.next)

\* the position of the stream of self.random when tick t shuffles n agents
RECURSIVE ShuffleStart(_, _, _)
ShuffleStart(sd, t, n) ==
    IF t = 1 THEN 1
    ELSE Shuffle([i \in 1..n |-> i], n, sd, ShuffleStart(sd, t - 1, n)).next

\* shuffle_do: the order self.random gives the n agents in tick t, creation
\* order shuffled by the seeded generator
SeededOrder(sd, t, n) ==
    Shuffle([i \in 1..n |-> i], n, sd, ShuffleStart(sd, t, n)).order

\* specification 4.1: remove(occupant, coord)
remove_agent(cells, id, p) == [cells EXCEPT ![p] = Without(@, id)]

\* specification 4.3: a movement to a coordinate that is out of bounds or not
\* adjacent fails with InvalidAction
ValidMove(m, from, to) ==
    /\ to \in DOMAIN m.grid
    /\ to[1] - from[1] \in {0 - 1, 0, 1}
    /\ to[2] - from[2] \in {0 - 1, 0, 1}

\* specification 4.1 and 4.3: an invalid move is a no-op; a valid one removes
\* the Trader from its cell and places it in cell `to`
MoveTrader(m, t, to) ==
    LET id == Len(m.resources) + t
        from == m.traders[t].pos
    IN  IF ~ValidMove(m, from, to) THEN m
        ELSE [m EXCEPT !.grid = place_agent([raised |-> FALSE,
                                             cells |-> remove_agent(m.grid, id, from)],
                                            id, to).cells,
                       !.traders[t].pos = to]

\* one activation: agent ids 1..R are the Resources, R+1..R+T the Traders.  A
\* Resource regrows; a Trader, under the deterministic stub, harvests one unit
\* from the first non-empty Resource of its cell and, where there is none,
\* moves one cell to the right.
ActivateInRun(m, id) ==
    LET R == Len(m.resources)
    IN  IF id <= R
        THEN [m EXCEPT !.resources[id].current_amount =
                          Regrow(@, m.resources[id].max_capacity)]
        ELSE LET t == id - R
                 here == { i \in 1..R : /\ m.resources[i].pos = m.traders[t].pos
                                         /\ m.resources[i].current_amount > 0 }
             IN  IF here = {}
                 THEN MoveTrader(m, t, << m.traders[t].pos[1] + 1, m.traders[t].pos[2] >>)
                 ELSE LET i == CHOOSE x \in here : \A y \in here : x <= y
                          got == Harvested(1, m.resources[i].current_amount)
                      IN  IF m.resources[i].type = "sugar"
                          THEN [m EXCEPT !.resources[i].current_amount = @ - got,
                                         !.traders[t].sugar = @ + got]
                          ELSE [m EXCEPT !.resources[i].current_amount = @ - got,
                                         !.traders[t].spice = @ + got]

RECURSIVE ActivateAll(_, _, _)
ActivateAll(m, ord, i) ==
    IF i > Len(ord) THEN m
    ELSE ActivateAll(ActivateInRun(m, ord[i]), ord, i + 1)

\* lines 133-147: one step() of run r with the deterministic stub
RunStep(r) ==
    /\ runs[r].built
    /\ UNCHANGED notSeed
    /\ runs[r].steps < MaxSeedTicks
    /\ LET m == runs[r]
           ord == SeededOrder(m.seed, m.steps + 1, Len(m.resources) + Len(m.traders))
       IN  runs' = [runs EXCEPT ![r] =
                      [ActivateAll(m, ord, 1) EXCEPT !.steps = m.steps + 1, !.order = ord]]
    /\ UNCHANGED args

SeedNext ==
    \/ \E r \in Runs : Construct(r)
    \/ \E r \in Runs : RunStep(r)

(***************************************************************************)
(* Part 5.  step() and astep() of SellerAgent and BuyerAgent               *)
(*                                                                         *)
(* step() and astep() of the same agent run on two copies of one model and *)
(* are handed the same plan; every statement of the two methods is one     *)
(* action.  generate_obs and apply_plan (LLMAgent) and the tools are not   *)
(* among the source files: an observation is kept as the state it was      *)
(* taken of, and the effect of apply_plan as the record of the call.       *)
(***************************************************************************)
\* budgets a BuyerAgent is constructed with (agents.py line 149)
Budgets == { 1, 2 }
\* model.grid.width and model.grid.height of the models the agents stand in
GridDimensions == { [width |-> 2, height |-> 1], [width |-> 10, height |-> 10] }

\* the plans the decision-maker can return: those of Part 3 and buy_product
ToolPlans(a) ==
    AllPlans(a) \cup
    { [tool |-> "buy_product", to |-> b, message |-> "", cell |-> 0] : b \in AgentIds \ {a} }

\* step() of a BuyerAgent offering the tools of the SellerAgent
StepSelectedTools_SpeakOnly(a) == { "speak_to" }

\* agents.py lines 107 and 170: selected_tools of step()
StepSelectedTools(a) ==
    IF KindOf(a) = "SellerAgent" THEN { "speak_to" }
    ELSE { "teleport_to_location", "speak_to", "buy_product" }

\* agents.py lines 99-101 and 117-119: the instructions both prompts of the
\* SellerAgent begin with
SellerPitch ==
    "Don't move around. If there are any buyers in your cell or in the neighboring cells, "
    \o "pitch them your product using the speak_to tool. "
    \o "Talk to them until they agree or definitely refuse to buy your product. "

\* agents.py lines 159-165 and 180-186: the instructions of the BuyerAgent
BuyerInstructions(w) ==
    "Your budget is $" \o ToString(w.budget) \o ". "
    \o "Move around by using the teleport_to_location tool if you are not talking to a seller, "
    \o "grid dimensions are " \o ToString(w.width) \o " x " \o ToString(w.height) \o ". "
    \o "Seller agents around you might try to pitch their product by sending you messages, get as much information as possible. "
    \o "When you have enough information, decide what to buy the product. "
    \o "Refer to the dialogue history to recall previous prices offered."

\* agents.py lines 97-104 and 157-166: the prompt of step()
StepPrompt(a, w, history) ==
    "DIALOGUE HISTORY:\n" \o history \o "\n\nINSTRUCTIONS:\n" \o
    (IF KindOf(a) = "SellerAgent"
     THEN SellerPitch \o "Use the dialogue history to inform your next response (e.g., if you already offered a price, stick to it or negotiate)."
     ELSE BuyerInstructions(w))

\* agents.py lines 115-122 and 178-187: the prompt of astep()
AStepPrompt(a, w, history) ==
    "DIALOGUE HISTORY:\n" \o history \o "\n\nINSTRUCTIONS:\n" \o
    (IF KindOf(a) = "SellerAgent"
     THEN SellerPitch \o "Use the dialogue history to inform your next response."
     ELSE BuyerInstructions(w))

\* the locals of a step() or astep() that has not run yet
NoRequest == [prompt |-> "", dialogue_history |-> "", obs |-> <<>>, selected_tools |-> {}]

\* self.generate_obs(): what agent a observes of the model in state w
generate_obs(a, w) == [agent |-> a, state |-> w]

\* self.apply_plan(plan): the tool call of the plan is executed on the model
apply_plan(w, a, plan) ==
    [w EXCEPT !.applied = Append(@, [agent |-> a, plan |-> plan])]

\* the models an agent can stand in when it is activated
Worlds(a) ==
    { [amem |-> [b \in AgentIds |-> IF b = a THEN log ELSE <<>>],
       pos |-> p, budget |-> bg, products |-> <<>>,
       width |-> g.width, height |-> g.height, applied |-> <<>>]
        : log \in Logs(MaxStepLog), p \in [AgentIds -> Cells], bg \in Budgets,
          g \in GridDimensions }

StepInit ==
    /\ who \in AgentIds
    /\ given \in { p \in ToolPlans(who) :
                     p.tool \in StepSelectedTools(who) \cap SelectedTools(who) }
    /\ sworld \in Worlds(who)
    /\ aworld = sworld
    /\ spc = "ready"
    /\ aspc = "ready"
    /\ strace = <<>>
    /\ atrace = <<>>
    /\ sreq = NoRequest
    /\ areq = NoRequest

\* agents.py lines 94 and 154: observation = self.generate_obs()
StepObserve ==
    /\ spc = "ready"
    /\ UNCHANGED notStep
    /\ sreq' = [sreq EXCEPT !.obs = generate_obs(who, sworld)]
    /\ strace' = Append(strace, "generate_obs")
    /\ spc' = "observed"
    /\ UNCHANGED <<who, given, sworld, aworld, aspc, atrace, areq>>

\* agents.py lines 95 and 155: dialogue_history = get_dialogue_history(self)
StepDialogue ==
    /\ spc = "observed"
    /\ UNCHANGED notStep
    /\ sreq' = [sreq EXCEPT !.dialogue_history = DialogueHistoryOf(sworld.amem[who])]
    /\ strace' = Append(strace, "get_dialogue_history")
    /\ spc' = "extracted"
    /\ UNCHANGED <<who, given, sworld, aworld, aspc, atrace, areq>>

\* agents.py lines 97-108 and 157-171: the prompt is built and
\* self.reasoning.plan is called; it returns the plan `given`
StepPlan ==
    /\ spc = "extracted"
    /\ UNCHANGED notStep
    /\ sreq' = [sreq EXCEPT !.prompt = StepPrompt(who, sworld, sreq.dialogue_history),
                            !.selected_tools = StepSelectedTools(who)]
    /\ strace' = Append(strace, "reasoning.plan")
    /\ spc' = "planned"
    /\ UNCHANGED <<who, given, sworld, aworld, aspc, atrace, areq>>

\* agents.py lines 109 and 172: self.apply_plan(plan)
StepApply ==
    /\ spc = "planned"
    /\ UNCHANGED notStep
    /\ sworld' = apply_plan(sworld, who, given)
    /\ strace' = Append(strace, "apply_plan")
    /\ spc' = "done"
    /\ UNCHANGED <<who, given, aworld, aspc, atrace, sreq, areq>>

\* agents.py lines 112 and 175: observation = self.generate_obs()
AStepObserve ==
    /\ aspc = "ready"
    /\ UNCHANGED notStep
    /\ areq' = [areq EXCEPT !.obs = generate_obs(who, aworld)]
    /\ atrace' = Append(atrace, "generate_obs")
    /\ aspc' = "observed"
    /\ UNCHANGED <<who, given, sworld, aworld, spc, strace, sreq>>

\* agents.py lines 113 and 176: dialogue_history = get_dialogue_history(self)
AStepDialogue ==
    /\ aspc = "observed"
    /\ UNCHANGED notStep
    /\ areq' = [areq EXCEPT !.dialogue_history = DialogueHistoryOf(aworld.amem[who])]
    /\ atrace' = Append(atrace, "get_dialogue_history")
    /\ aspc' = "extracted"
    /\ UNCHANGED <<who, given, sworld, aworld, spc, strace, sreq>>

\* agents.py lines 115-126 and 178-192: the prompt is built and
\* self.reasoning.aplan is called and awaited
AStepCall ==
    /\ aspc = "extracted"
    /\ UNCHANGED notStep
    /\ areq' = [areq EXCEPT !.prompt = AStepPrompt(who, aworld, areq.dialogue_history),
                            !.selected_tools = SelectedTools(who)]
    /\ atrace' = Append(atrace, "reasoning.aplan")
    /\ aspc' = "awaiting"
    /\ UNCHANGED <<who, given, sworld, aworld, spc, strace, sreq>>

\* agents.py lines 127 and 193: aplan has returned the plan `given`, astep()
\* is resumed and calls self.apply_plan(plan)
AStepReturn ==
    /\ aspc = "awaiting"
    /\ UNCHANGED notStep
    /\ aworld' = apply_plan(aworld, who, given)
    /\ atrace' = Append(atrace, "apply_plan")
    /\ aspc' = "done"
    /\ UNCHANGED <<who, given, sworld, spc, strace, sreq, areq>>

StepNext ==
    \/ StepObserve
    \/ StepDialogue
    \/ StepPlan
    \/ StepApply
    \/ AStepObserve
    \/ AStepDialogue
    \/ AStepCall
    \/ AStepReturn

(***************************************************************************)
(* Part 6.  Two Traders that harvest and trade within step()               *)
(*                                                                         *)
(* Trader (examples/sugarscrap_g1mt/agents.py) is not among the source     *)
(* files.  compute_mrs and the negotiation follow sections 4.3 and 4.4 of  *)
(* the specification; step(), the construction of the Traders and the      *)
(* reporters are those of model.py.  An increment narrows the gap between  *)
(* the two MRS (sections 8.2 and 8.7): sugar goes to the Trader whose MRS, *)
(* as section 3 defines it, is the lower one.  The tolerance and the       *)
(* iteration cap are configuration of a run (section 9).                   *)
(* Spice is held in 1/Scale units so that a price is a whole number.       *)
(***************************************************************************)
\* spice units per unit of spice
Scale == 10
\* the largest per-tick iteration cap a run is configured with (specification
\* 4.4, step 6, and 9)
MaxIterationCap == 3
\* the tolerances a run is configured with, in 1/Scale of an MRS
\* (specification 4.4, step 1, and 9)
Tolerances == { 0, 5 }
\* the quantity of sugar of one increment (specification 4.4, step 4)
Quantum == 1

\* the Traders of SugarScapeModel(initial_traders=2)
TraderPair == {"t1", "t2"}

Other(t) == CHOOSE u \in TraderPair : u # t

\* compute_mrs (specification 3, 4.3): (sugar/metabolism_sugar) /
\* (spice/metabolism_spice) as numerator and denominator
MrsNum(h, m) == h.sugar * m.spice * Scale
MrsDen(h, m) == h.spice * m.sugar
\* compute_mrs fails with DivisionUndefined
MrsUndefined(h, m) == m.sugar = 0 \/ m.spice = 0 \/ h.spice = 0

\* MRS of (h1, m1) is greater than / equal to the MRS of (h2, m2)
MrsGreater(h1, m1, h2, m2) == MrsNum(h1, m1) * MrsDen(h2, m2) > MrsNum(h2, m2) * MrsDen(h1, m1)
\* specification 4.4, step 1: the two MRS differ by at most tol / Scale
MrsWithin(h1, m1, h2, m2, tol) ==
    LET x == MrsNum(h1, m1) * MrsDen(h2, m2)
        y == MrsNum(h2, m2) * MrsDen(h1, m1)
    IN  (IF x > y THEN x - y ELSE y - x) * Scale <= tol * MrsDen(h1, m1) * MrsDen(h2, m2)

\* the largest r with r * r <= n, searched in lo..hi
RECURSIVE ISqrtIn(_, _, _)
ISqrtIn(n, lo, hi) ==
    IF lo >= hi THEN lo
    ELSE LET mid == (lo + hi + 1) \div 2
         IN  IF mid * mid <= n THEN ISqrtIn(n, mid, hi) ELSE ISqrtIn(n, lo, mid - 1)
ISqrt(n) == ISqrtIn(n, 0, Min(n, 46340))

\* specification 4.4, step 3: the geometric mean of the two MRS, in 1/Scale
Price(h, m, a, b) ==
    ISqrt((MrsNum(h[a], m[a]) * MrsNum(h[b], m[b]) * Scale * Scale)
            \div (MrsDen(h[a], m[a]) * MrsDen(h[b], m[b])))

\* the geometric mean is a whole number of 1/Scale (otherwise Price is the
\* mean rounded down)
PriceIsExact(h, m, a, b) ==
    Price(h, m, a, b) * Price(h, m, a, b) * MrsDen(h[a], m[a]) * MrsDen(h[b], m[b])
        = MrsNum(h[a], m[a]) * MrsNum(h[b], m[b]) * Scale * Scale

\* specification 4.4, step 2, with 8.2 and 8.7: who buys sugar and pays spice.
\* Sugar flows from the Trader with the higher MRS to the other one.
Buyer(h, m, a, b) ==
    IF MrsGreater(h[a], m[a], h[b], m[b]) THEN b ELSE a

\* specification 4.4, step 7: one increment
Transfer(h, buyer, seller, price) ==
    [h EXCEPT ![buyer].sugar = @ + Quantum, ![buyer].spice = @ - price,
              ![seller].sugar = @ - Quantum, ![seller].spice = @ + price]

\* specification 4.4, step 5: an inventory would go negative (a price that
\* was rounded down is greater than `price`)
WouldGoNegative(h, buyer, seller, price, exact) ==
    \/ h[seller].sugar - Quantum < 0
    \/ h[buyer].spice - price < (IF exact THEN 0 ELSE 1)

\* specification 4.4, step 5: a recomputed MRS crosses the other's pre-trade MRS
Crosses(h, m, a, b, after) ==
    LET x == IF MrsGreater(h[a], m[a], h[b], m[b]) THEN a ELSE b
        y == Other(x)
    IN  \/ MrsGreater(h[y], m[y], after[x], m[x])
        \/ MrsGreater(after[y], m[y], h[x], m[x])

\* lines 57-62: Total_Sugar and Total_Spice of the first Trader only
Totals_FirstTraderOnly(h) == [sugar |-> h["t1"].sugar, spice |-> h["t1"].spice]

\* lines 57-62: Total_Sugar and Total_Spice
Totals(h) ==
    [sugar |-> SumOver([t \in TraderPair |-> h[t].sugar], TraderPair),
     spice |-> SumOver([t \in TraderPair |-> h[t].spice], TraderPair)]

\* nothing is collected in __init__
NoTotals == [sugar |-> 0, spice |-> 0]

\* lines 120-131: the Traders after construction
TradeInit ==
    /\ xconf \in [tolerance : Tolerances, iteration_cap : 1..MaxIterationCap]
    /\ endings = {}
    /\ xargs \in [initial_resources : 0..2, initial_traders : {Cardinality(TraderPair)},
                  width : {2}, height : {2}]
    /\ \E e \in Entropies :
          LET built == [t \in TraderPair |-> TraderAttributes(ConstructionDraws(e, xargs), TraderIndex[t], xargs)]
          IN
          /\ hold = [t \in TraderPair |->
                        [sugar |-> built[t].sugar, spice |-> built[t].spice * Scale]]
          /\ met = [t \in TraderPair |->
                       [sugar |-> built[t].metabolism_sugar,
                        spice |-> built[t].metabolism_spice]]
    /\ xpc = "idle"
    /\ xticks = 0
    /\ todo = {}
    /\ initiator = "t1"
    /\ iter = 0
    /\ executed = 0
    /\ xharvested = FALSE
    /\ tickTotals = Totals(hold)
    /\ negTotals = Totals(hold)
    /\ xreport = NoTotals

\* lines 133-145: step() begins, shuffle_do will activate every Trader
TradeStepBegin ==
    /\ xpc = "idle"
    /\ UNCHANGED notTrade
    /\ xticks < MaxTradeTicks
    /\ xticks' = xticks + 1
    /\ todo' = TraderPair
    /\ xharvested' = FALSE
    /\ tickTotals' = Totals(hold)
    /\ xpc' = "activating"
    /\ UNCHANGED <<xconf, endings, xargs, hold, met, initiator, iter, executed, negTotals, xreport>>

\* the activation of a Trader whose plan changes no inventory
TraderWaits(t) ==
    /\ xpc = "activating"
    /\ UNCHANGED notTrade
    /\ t \in todo
    /\ todo' = todo \ {t}
    /\ UNCHANGED <<xconf, endings, xargs, hold, met, xpc, xticks, initiator, iter, executed,
                   xharvested, tickTotals, negTotals, xreport>>

\* the activation of a Trader that harvests one unit of sugar (harvest_at)
TraderHarvests(t) ==
    /\ xpc = "activating"
    /\ UNCHANGED notTrade
    /\ t \in todo
    /\ xargs.initial_resources > 0
    /\ hold' = [hold EXCEPT ![t].sugar = @ + Harvested(1, 1)]
    /\ xharvested' = TRUE
    /\ todo' = todo \ {t}
    /\ UNCHANGED <<xconf, endings, xargs, met, xpc, xticks, initiator, iter, executed,
                   tickTotals, negTotals, xreport>>

\* the activation of a Trader that seeks trade: the negotiation with the
\* other Trader starts
NegotiationBegin(t) ==
    /\ xpc = "activating"
    /\ UNCHANGED notTrade
    /\ t \in todo
    /\ initiator' = t
    /\ iter' = 0
    /\ executed' = 0
    /\ negTotals' = Totals(hold)
    /\ xpc' = "negotiating"
    /\ UNCHANGED <<xconf, endings, xargs, hold, met, xticks, todo, xharvested, tickTotals, xreport>>

\* specification 4.4, step 6: the per-tick iteration cap is reached
CapReached_Never == FALSE

CapReached == iter >= xconf.iteration_cap

\* the pass of the loop that is due: its buyer, seller, price and outcome
Pass ==
    LET a == initiator
        b == Other(initiator)
    IN  IF MrsUndefined(hold[a], met[a]) \/ MrsUndefined(hold[b], met[b])
        THEN [outcome |-> "DivisionUndefined", after |-> hold]
        ELSE IF MrsWithin(hold[a], met[a], hold[b], met[b], xconf.tolerance)
        THEN [outcome |-> "no trade", after |-> hold]
        ELSE LET buyer == Buyer(hold, met, a, b)
                 seller == Other(buyer)
                 price == Price(hold, met, a, b)
                 after == Transfer(hold, buyer, seller, price)
             IN  IF WouldGoNegative(hold, buyer, seller, price,
                                    PriceIsExact(hold, met, a, b))
                 THEN [outcome |-> "no trade", after |-> hold]
                 ELSE IF MrsUndefined(after[a], met[a]) \/ MrsUndefined(after[b], met[b])
                 THEN [outcome |-> "DivisionUndefined", after |-> hold]
                 ELSE IF Crosses(hold, met, a, b, after)
                 THEN [outcome |-> "no trade", after |-> hold]
                 ELSE [outcome |-> "increment", after |-> after]

\* specification 4.4, steps 1-5 and 7: a pass that executes an increment
NegotiationIncrement ==
    /\ xpc = "negotiating"
    /\ UNCHANGED notTrade
    /\ ~CapReached
    /\ Pass.outcome = "increment"
    /\ hold' = Pass.after
    /\ iter' = iter + 1
    /\ executed' = executed + 1
    /\ UNCHANGED <<xconf, endings, xargs, met, xpc, xticks, todo, initiator, xharvested,
                   tickTotals, negTotals, xreport>>

\* specification 4.4, steps 1, 5 and 6: the cap is reached or the pass finds
\* no further increment, and the negotiation and the activation are over.  A
\* pass in which compute_mrs fails leaves step() at once: nothing catches
\* DivisionUndefined, in the Trader or in step() (model.py lines 145-147).
NegotiationEnd ==
    /\ xpc = "negotiating"
    /\ UNCHANGED notTrade
    /\ CapReached \/ Pass.outcome # "increment"
    /\ IF ~CapReached /\ Pass.outcome = "DivisionUndefined"
       THEN /\ xpc' = "raised"
            /\ UNCHANGED <<todo, endings>>
       ELSE /\ xpc' = "activating"
            /\ todo' = todo \ {initiator}
            /\ endings' = endings \cup { IF CapReached THEN "cap" ELSE "no trade" }
    /\ UNCHANGED <<xconf, xargs, hold, met, xticks, initiator, iter, executed,
                   xharvested, tickTotals, negTotals, xreport>>

\* line 147 with lines 57-62 and 77: datacollector.collect computes the totals
\* and every Trader's MRS
TradeCollect ==
    /\ xpc = "activating"
    /\ UNCHANGED notTrade
    /\ todo = {}
    /\ IF \E t \in TraderPair : MrsUndefined(hold[t], met[t])
       THEN xpc' = "raised" /\ UNCHANGED xreport
       ELSE xpc' = "idle" /\ xreport' = Totals(hold)
    /\ UNCHANGED <<xconf, endings, xargs, hold, met, xticks, todo, initiator, iter, executed,
                   xharvested, tickTotals, negTotals>>

TradeNext ==
    \/ TradeStepBegin
    \/ \E t \in TraderPair : TraderWaits(t)
    \/ \E t \in TraderPair : TraderHarvests(t)
    \/ \E t \in TraderPair : NegotiationBegin(t)
    \/ NegotiationIncrement
    \/ NegotiationEnd
    \/ TradeCollect

(***************************************************************************)
(* Specifications                                                          *)
(***************************************************************************)
\* the values the variables of a subsystem hold while another one runs
DialogueIdle ==
    /\ memory = [hasSTM |-> FALSE, short_term_memory |-> <<>>,
                 hasEntries |-> FALSE, memory_entries |-> <<>>]
    /\ max_messages = 5
    /\ dpc = "ready"
    /\ calls = 0
    /\ result = ""
    /\ dialogue = <<>>
    /\ examined = {}
    /\ picked = <<>>
    /\ registry = AgentObjects

TickIdle ==
    /\ tpc = "idle"
    /\ steps = 0
    /\ order = <<>>
    /\ idx = 1
    /\ capacity = [r \in Resources |-> 2]
    /\ rtype = [r \in Resources |-> "sugar"]
    /\ amount = capacity
    /\ sugar = [t \in Traders |-> 50]
    /\ spice = [t \in Traders |-> 50]
    /\ endowed = [t \in Traders |-> [sugar |-> 50, spice |-> 50]]
    /\ step_sugar_harvest = 0
    /\ step_spice_harvest = 0
    /\ total_sugar_harvested = 0
    /\ total_spice_harvested = 0
    /\ activated = [a \in Agents |-> 0]
    /\ regrown = [r \in Resources |-> 0]
    /\ collected = 0
    /\ reported = NoReport
    /\ failed = {}
    /\ harvestedFrom = {}
    /\ quietBase = amount
    /\ quietTicks = [r \in Resources |-> 0]
    /\ lastPlan = NoPlan

ParallelIdle == ParallelInit

StepIdle ==
    /\ who = 1
    /\ given = [tool |-> "speak_to", to |-> 2, message |-> "offer", cell |-> 0]
    /\ sworld = [amem |-> [b \in AgentIds |-> <<>>], pos |-> [b \in AgentIds |-> 0],
                 budget |-> 1, products |-> <<>>, width |-> 2, height |-> 1,
                 applied |-> <<>>]
    /\ aworld = sworld
    /\ spc = "ready"
    /\ aspc = "ready"
    /\ strace = <<>>
    /\ atrace = <<>>
    /\ sreq = NoRequest
    /\ areq = NoRequest

SeedIdle ==
    /\ args = [initial_resources |-> 1, initial_traders |-> 1, width |-> 2, height |-> 2]
    /\ runs = [r \in Runs |-> NotBuilt(7, 0)]

TradeIdle ==
    /\ xconf = [tolerance |-> 0, iteration_cap |-> 1]
    /\ endings = {}
    /\ xargs = [initial_resources |-> 0, initial_traders |-> 2, width |-> 2, height |-> 2]
    /\ hold = [t \in TraderPair |-> [sugar |-> 50, spice |-> 50 * Scale]]
    /\ met = [t \in TraderPair |-> [sugar |-> 1, spice |-> 1]]
    /\ xpc = "idle"
    /\ xticks = 0
    /\ todo = {}
    /\ initiator = "t1"
    /\ iter = 0
    /\ executed = 0
    /\ xharvested = FALSE
    /\ tickTotals = Totals(hold)
    /\ negTotals = Totals(hold)
    /\ xreport = NoTotals

InitDialogue == DialogueInit /\ TickIdle /\ ParallelIdle /\ SeedIdle /\ StepIdle /\ TradeIdle

DialogueNext == GetDialogueHistory

SpecDialogue == InitDialogue /\ [][DialogueNext]_vars

InitTick == TickInit /\ DialogueIdle /\ ParallelIdle /\ SeedIdle /\ StepIdle /\ TradeIdle

SpecTick == InitTick /\ [][TickNext]_vars

InitParallel == ParallelInit /\ DialogueIdle /\ TickIdle /\ SeedIdle /\ StepIdle /\ TradeIdle

SpecParallel == InitParallel /\ [][ParallelNext]_vars

InitSeed == SeedInit /\ DialogueIdle /\ TickIdle /\ ParallelIdle /\ StepIdle /\ TradeIdle

SpecSeed == InitSeed /\ [][SeedNext]_vars

InitStep == StepInit /\ DialogueIdle /\ TickIdle /\ ParallelIdle /\ SeedIdle /\ TradeIdle

SpecStep == InitStep /\ [][StepNext]_vars

InitTrade == TradeInit /\ DialogueIdle /\ TickIdle /\ ParallelIdle /\ SeedIdle /\ StepIdle

SpecTrade == InitTrade /\ [][TradeNext]_vars

(***************************************************************************)
(* Properties of get_dialogue_history                                      *)
(***************************************************************************)
\* the store the call scans, and the payload at position i of it
Store == memory_source(memory)
Payload(i) == Store[i].content

\* a payload that is a dict carrying a "message" key
CarriesMessage(i) == Payload(i).isDict /\ Payload(i).hasMessage
\* a payload that is a dict carrying both a "sender" and a "message" key
CarriesSenderAndMessage(i) == CarriesMessage(i) /\ Payload(i).hasSender

\* positions of the k most recent entries of the store (k >= 0)
Recent(k) == { i \in 1..Len(Store) : i > Len(Store) - k }

\* the k most recent positions among the set S of positions
LastOf(S, k) == { i \in S : Cardinality({ j \in S : j > i }) < k }

\* the positions of S in increasing order
RECURSIVE Ascending(_)
Ascending(S) ==
    IF S = {} THEN <<>>
    ELSE LET m == CHOOSE i \in S : \A j \in S : j <= i
         IN  Append(Ascending(S \ {m}), m)

\* the text the call returns for the lines of the positions in S, oldest first
RECURSIVE LinesText(_)
LinesText(ps) ==
    IF Len(ps) = 0 THEN ""
    ELSE LET line == FormatLine(Payload(ps[1]), ModelAgents)
         IN  IF Len(ps) = 1 THEN line ELSE line \o "\n" \o LinesText(Tail(ps))

TextOf(S) == IF S = {} THEN NoDialogue ELSE LinesText(Ascending(S))

MessagePositions == { i \in 1..Len(Store) : CarriesMessage(i) }

\* C1 (as stated): whenever the whole log holds at least max_messages dialogue
\* entries, however they are interleaved with other entries, the call returns
\* exactly the max_messages most recent dialogue entries of the whole log,
\* oldest first.
C1_AnyInterleaving ==
    (dpc = "returned" /\ max_messages >= 0
        /\ Cardinality(MessagePositions) >= max_messages)
    => /\ Reverse(picked) = Ascending(LastOf(MessagePositions, max_messages))
       /\ result = TextOf(LastOf(MessagePositions, max_messages))

\* C1 (amended): whenever the max_messages*2 most recent entries of the log hold
\* at least max_messages message-carrying entries, the call returns exactly the
\* max_messages most recent message-carrying entries of the whole log, oldest
\* first.
C1_WithinWindow ==
    (dpc = "returned" /\ max_messages >= 0
        /\ Cardinality(MessagePositions \cap Recent(max_messages * 2)) >= max_messages)
    => /\ Reverse(picked) = Ascending(LastOf(MessagePositions, max_messages))
       /\ result = TextOf(LastOf(MessagePositions, max_messages))

\* C1 witness: two lines returned from a four-entry log in which a non-dialogue
\* entry sits between them and an older dialogue entry is left out.
C1_Witness ==
    /\ dpc = "returned" /\ max_messages = 2 /\ Len(Store) = 4
    /\ picked = <<4, 2>>
    /\ CarriesMessage(1) /\ ~CarriesMessage(3)

Picked == { picked[k] : k \in 1..Len(picked) }

\* C7 (as stated): every returned line comes from a dict payload that carries
\* both a sender and a message.
C7_SenderAndMessage ==
    dpc = "returned" => \A i \in Picked : CarriesSenderAndMessage(i)

\* C7 (amended): an entry contributes a line exactly when it is examined and
\* its payload is a dict carrying a message; a payload with a sender but no
\* message, or a non-dict payload, never contributes; a payload with a message
\* but no sender contributes a line labelled "Unknown".
C7_MessageOnly ==
    dpc = "returned" =>
        /\ \A i \in Picked : CarriesMessage(i)
        /\ \A i \in examined : CarriesMessage(i) => i \in Picked
        /\ \A k \in 1..Len(picked) :
              ~Payload(picked[k]).hasSender =>
                  dialogue[k] = "- Unknown: " \o Payload(picked[k]).message

\* C7 witness: a sender-less message was retained while a sender-only dict and
\* a non-dict payload were examined and dropped.
C7_Witness ==
    /\ dpc = "returned"
    /\ \E i \in Picked : ~Payload(i).hasSender
    /\ \E i \in examined : Payload(i).isDict /\ ~Payload(i).hasMessage
    /\ \E i \in examined : ~Payload(i).isDict

\* C8: for max_messages >= 0 the call inspects only entries among the
\* max_messages*2 most recent, newest first without gaps, inspects no entry
\* once max_messages lines are collected, and returns at most max_messages
\* lines, all from that window.
C8_ScanBound ==
    (dpc = "returned" /\ max_messages >= 0) =>
        /\ examined \subseteq Recent(max_messages * 2)
        /\ \A i \in examined : \A j \in i..Len(Store) : j \in examined
        /\ \A i \in examined : Cardinality({ j \in Picked : j > i }) < max_messages
        /\ Len(picked) <= max_messages
        /\ Len(dialogue) = Len(picked)
        /\ Picked \subseteq Recent(max_messages * 2)
        /\ result = TextOf(Picked)

\* C8 witness: a log longer than the window, with a message older than the
\* window, where the scan stopped before the end of the window.
C8_Witness ==
    /\ dpc = "returned" /\ max_messages = 1 /\ Len(Store) = 4
    /\ CarriesMessage(1) /\ CarriesMessage(3)
    /\ examined = {4} /\ picked = <<4>>

\* C9: the call returns the sentinel exactly when no line was collected, in
\* particular when the memory exposes no store, the store is empty, or no
\* inspected entry carries a message.
C9_SentinelIffEmpty ==
    dpc = "returned" =>
        /\ (result = NoDialogue) <=> (picked = <<>>)
        /\ (~memory.hasSTM /\ ~memory.hasEntries) => result = NoDialogue
        /\ Len(Store) = 0 => result = NoDialogue
        /\ (\A i \in examined : ~CarriesMessage(i)) => result = NoDialogue

\* C9 witness: a non-empty store whose inspected entries hold no message.
C9_Witness ==
    /\ dpc = "returned" /\ max_messages >= 1
    /\ Len(Store) >= 2 /\ Cardinality(examined) >= 2
    /\ result = NoDialogue

\* the label the claim prescribes for a sender
RECURSIVE KindOfId(_, _)
KindOfId(agents, id) ==
    IF Len(agents) = 0 THEN "Agent"
    ELSE IF Head(agents).id = id THEN Head(agents).kind
    ELSE KindOfId(Tail(agents), id)

\* C10: every returned line is "- <label>: <message>", where the label of an
\* agent reference is its kind and id, the label of an integer id of a current
\* agent is that agent's kind and the id, and the label of an integer id of no
\* current agent is "Agent <id>".
C10_SenderLabel ==
    dpc = "returned" =>
        \A k \in 1..Len(picked) :
            LET c == Payload(picked[k])
                s == c.sender
                id == ToString(s.id)
                known == \E n \in 1..Len(ModelAgents) : ModelAgents[n].id = s.id
            IN  c.hasSender =>
                  /\ s.tag = "agent"
                        => dialogue[k] = "- " \o s.kind \o " " \o id \o ": " \o c.message
                  /\ (s.tag = "int" /\ known)
                        => dialogue[k] = "- " \o KindOfId(ModelAgents, s.id) \o " " \o id
                                            \o ": " \o c.message
                  /\ (s.tag = "int" /\ ~known)
                        => dialogue[k] = "- Agent " \o id \o ": " \o c.message

\* C10 witness: one result holding an agent reference, a known id and an
\* unknown id.
C10_Witness ==
    /\ dpc = "returned"
    /\ result = "- SellerAgent 1: offer\n- BuyerAgent 2: deal\n- Agent 3: hello"

\* the message-carrying entries of the scanned window
WindowMessages == MessagePositions \cap Recent(Max(max_messages, 0) * 2)

\* C11: the returned lines stand in the order of their source entries in the
\* log, oldest first, and their sources are a run of the message-carrying
\* entries of the scanned window without gaps that ends at the newest of them.
C11_ChronologicalRun ==
    dpc = "returned" =>
        /\ \A k \in 1..(Len(picked) - 1) : picked[k] > picked[k + 1]
        /\ result = TextOf(Picked)
        /\ Picked \subseteq WindowMessages
        /\ \A i \in WindowMessages : (\E j \in Picked : j <= i) => i \in Picked
        /\ (max_messages >= 1 /\ WindowMessages # {}) => Picked # {}

\* C11 witness: three different lines returned oldest first from a four-entry
\* log whose second entry carries no message.
C11_Witness ==
    /\ dpc = "returned" /\ max_messages = 3 /\ Len(Store) = 4
    /\ picked = <<4, 3, 1>> /\ ~CarriesMessage(2)
    /\ result = "- Bob: hey\n- Unknown: anon\n- SellerAgent 1: offer"

\* every inspected position and every collected line comes from the log `log`
ScannedFrom(log) ==
    /\ examined \subseteq 1..Len(log)
    /\ \A k \in 1..Len(picked) :
          /\ picked[k] \in 1..Len(log)
          /\ dialogue[k] = FormatLine(log[picked[k]].content, ModelAgents)

\* C18: a memory that exposes a short-term buffer has only that buffer
\* scanned; the entry list is scanned only when the memory exposes no
\* short-term buffer; an empty short-term buffer yields the sentinel whatever
\* the entry list holds.
C18_StorePrecedence ==
    dpc = "returned" =>
        /\ memory.hasSTM => ScannedFrom(memory.short_term_memory)
        /\ (~memory.hasSTM /\ memory.hasEntries) => ScannedFrom(memory.memory_entries)
        /\ (memory.hasSTM /\ Len(memory.short_term_memory) = 0) => result = NoDialogue

\* C18 witness: the sentinel returned for an empty short-term buffer beside an
\* entry list that holds a message.
C18_Witness ==
    /\ dpc = "returned" /\ max_messages >= 1
    /\ memory.hasSTM /\ Len(memory.short_term_memory) = 0
    /\ memory.hasEntries /\ Len(memory.memory_entries) = 1
    /\ memory.memory_entries[1].content.isDict
    /\ memory.memory_entries[1].content.hasMessage
    /\ result = NoDialogue

\* C19: a call of get_dialogue_history leaves the agent's memory (the stores
\* it exposes, their entries and the order of the entries) and the agents of
\* the model, with their positions and inventories, as they were; what it
\* returns is the content of its own list; and a call that directly follows
\* another call returns the same result as that call.
C19_ReadOnly ==
    [][ calls' > calls =>
          /\ memory' = memory
          /\ registry' = registry
          /\ max_messages' = max_messages
          /\ result' = ReturnValue(ObjectsAfterCall(memory, max_messages, registry))
          /\ calls >= 1 => result' = result ]_vars

\* C19 witness: a second call has returned a line from a store of four
\* entries, of which the call copies the two newest and skips the newest one;
\* the store reads differently from its two ends.
C19_Witness ==
    /\ calls = 2 /\ Len(Store) = 4
    /\ entries_to_check(Store, max_messages) = 2
    /\ picked = << 3 >>
    /\ Payload(1) # Payload(4)
    /\ result # NoDialogue

(***************************************************************************)
(* Properties of SugarScapeModel.step                                      *)
(***************************************************************************)
\* step() has been called and has returned or raised
TickEnded == steps > 0 /\ tpc \in {"idle", "raised"}

\* C2: when the decision-maker fails for an agent, the tick still activates
\* every agent once and still invokes the metrics sink once, and step() does
\* not raise.
C2_FailureIsolation ==
    (TickEnded /\ failed # {}) =>
        /\ tpc = "idle"
        /\ \A a \in Agents : activated[a] = 1
        /\ collected = 1

\* C4: a Trader is activated only while either no Resource or every Resource
\* has regrown in the tick, and a tick that has returned has regrown every
\* Resource exactly once.
C4_RegrowthOnePhase ==
    [][ /\ (\E t \in Traders : activated'[t] > activated[t])
            => \/ \A r \in Resources : regrown[r] = 0
               \/ \A r \in Resources : regrown[r] = 1
        /\ (steps' > 0 /\ tpc' = "idle")
            => \A r \in Resources : regrown'[r] = 1 ]_vars

\* C6: the per-tick accumulators are 0 when the first agent is about to be
\* activated, every step() activates every agent exactly once and then invokes
\* the metrics sink exactly once, never before the last activation, and the
\* run-level totals keep everything harvested since construction.
C6_PhaseOrder ==
    /\ (tpc = "activating" /\ idx = 1)
            => (step_sugar_harvest = 0 /\ step_spice_harvest = 0)
    /\ collected <= 1
    /\ collected = 1 => \A a \in Agents : activated[a] = 1
    /\ TickEnded => (collected = 1 /\ \A a \in Agents : activated[a] = 1)
    /\ total_sugar_harvested =
          SumOver(sugar, Traders) - SumOver([t \in Traders |-> endowed[t].sugar], Traders)
    /\ total_spice_harvested =
          SumOver(spice, Traders) - SumOver([t \in Traders |-> endowed[t].spice], Traders)

\* C14: every Resource is created full with a capacity of 2..5 and always
\* holds between 0 and its capacity; a regrowth adds the growback of 1 clamped
\* at the capacity; a harvest takes min(requested, amount) from the Resource,
\* nothing from an exhausted one, and hands exactly that to the Trader; when
\* step() has returned N times since a Resource was last harvested, the
\* Resource holds min(capacity, amount then + N * growback).
C14_ResourceBound ==
    /\ [](\A r \in Resources :
            /\ capacity[r] \in 2..5
            /\ amount[r] \in 0..capacity[r]
            /\ steps = 0 => amount[r] = capacity[r]
            /\ tpc = "idle" =>
                  amount[r] = (IF quietBase[r] + quietTicks[r] * Growback < capacity[r]
                               THEN quietBase[r] + quietTicks[r] * Growback
                               ELSE capacity[r]))
    /\ [][\A r \in Resources :
            /\ regrown'[r] = regrown[r] + 1 =>
                  amount'[r] = (IF amount[r] + Growback < capacity[r]
                                THEN amount[r] + Growback ELSE capacity[r])
            /\ ((\E t \in Traders : activated'[t] > activated[t])
                    /\ lastPlan'.kind = "harvest" /\ lastPlan'.target = r) =>
                  LET taken == amount[r] - amount'[r]
                  IN  /\ taken = (IF lastPlan'.requested < amount[r]
                                  THEN lastPlan'.requested ELSE amount[r])
                      /\ amount[r] = 0 => taken = 0
                      /\ SumOver(sugar', Traders) + SumOver(spice', Traders)
                            = SumOver(sugar, Traders) + SumOver(spice, Traders) + taken
            /\ amount'[r] < amount[r] =>
                  /\ r \in harvestedFrom'
                  /\ lastPlan'.kind = "harvest" /\ lastPlan'.target = r ]_vars

\* C14 witness: the Trader asked a Resource of capacity 2 for 6 units in the
\* first tick and took its 2 units; in the second tick it has asked the
\* exhausted Resource for 6 again and has been handed nothing.
C14_Witness ==
    /\ tpc = "activating" /\ steps = 2
    /\ activated["t1"] = 1
    /\ lastPlan = [kind |-> "harvest", target |-> "r2", requested |-> 6]
    /\ capacity["r2"] = 2 /\ amount["r2"] = 0
    /\ step_sugar_harvest + step_spice_harvest = 0
    /\ total_sugar_harvested + total_spice_harvested = 2

(***************************************************************************)
(* Properties of parallel stepping                                         *)
(***************************************************************************)
\* C5: in a parallel tick every agent that has observed holds the observation
\* and the dialogue digest of the state the tick started from, whatever its
\* siblings have applied since, and plans are applied one at a time.
C5_TickStartSnapshot ==
    ppc = "gathering" =>
        /\ \A a \in AgentIds :
              apc[a] # "created" =>
                  /\ obs[a] = startPos
                  /\ digest[a] = DialogueHistoryOf(startMem[a])
        /\ Len(applied) = Cardinality({ a \in AgentIds : apc[a] = "done" })

(***************************************************************************)
(* Properties of seeded runs                                               *)
(***************************************************************************)
\* C3: two runs constructed with the same seed and arguments that have taken
\* the same number of steps have the same Resources, the same Traders
\* (inventories, metabolisms, positions) and the same last activation order.
C3_SeedDeterminism ==
    (/\ runs[1].built /\ runs[2].built
     /\ runs[1].seed = runs[2].seed
     /\ runs[1].steps = runs[2].steps)
    => /\ runs[1].resources = runs[2].resources
       /\ runs[1].traders = runs[2].traders
       /\ runs[1].order = runs[2].order

(***************************************************************************)
(* Properties of the grid                                                  *)
(***************************************************************************)
\* the agents of a built run (Resources first) and the position each records
OccupantsOf(m) == 1..(Len(m.resources) + Len(m.traders))
PosOf(m, id) ==
    IF id <= Len(m.resources) THEN m.resources[id].pos
    ELSE m.traders[id - Len(m.resources)].pos

\* how often agent id is listed in the cell list
Occurrences(lst, id) == Cardinality({ k \in 1..Len(lst) : lst[k] = id })

\* C15: construction never fails to place an agent, and in every built model
\* every Resource and every Trader is listed once in exactly one cell of the
\* grid, that cell is the position the agent records and lies inside
\* [0, width) x [0, height), and nothing else is listed.
C15_GridPlacement ==
    \A r \in Runs :
        /\ ~runs[r].raised
        /\ runs[r].built =>
            LET m == runs[r]
            IN  /\ DOMAIN m.grid = GridCells(args)
                /\ Len(m.resources) = args.initial_resources
                /\ Len(m.traders) = args.initial_traders
                /\ \A id \in OccupantsOf(m) :
                      /\ PosOf(m, id)[1] \in 0..(args.width - 1)
                      /\ PosOf(m, id)[2] \in 0..(args.height - 1)
                      /\ \A c \in DOMAIN m.grid :
                            Occurrences(m.grid[c], id) = (IF c = PosOf(m, id) THEN 1 ELSE 0)
                /\ \A c \in DOMAIN m.grid :
                      \A k \in 1..Len(m.grid[c]) : m.grid[c][k] \in OccupantsOf(m)

\* C15 witness: after two steps a cell holds two occupants and a Trader has
\* left the column it was placed in.
C15_Witness ==
    /\ runs[1].built /\ runs[1].steps = 2
    /\ \E c \in DOMAIN runs[1].grid : Len(runs[1].grid[c]) >= 2
    /\ \E t \in 1..Len(runs[1].traders) :
          runs[1].traders[t].pos[1] #
              BuildTrader(runs[1].seed, ConstructionDraws(runs[1].entropy, args),
                          t - 1, args).pos[1]

(***************************************************************************)
(* Properties of step() and astep()                                        *)
(***************************************************************************)
\* the phase of an activation a call belongs to
Phase(call) ==
    CASE call = "generate_obs" -> "observe"
      [] call = "get_dialogue_history" -> "dialogue extraction"
      [] call \in { "reasoning.plan", "reasoning.aplan" } -> "decision request"
      [] call = "apply_plan" -> "apply_plan"

Phases(trace) == [i \in 1..Len(trace) |-> Phase(trace[i])]

\* C17: when step() and astep() of the same agent have run from the same
\* state with the same plan returned, both have observed, extracted the
\* dialogue, made one decision request and called apply_plan once, in that
\* order, both have offered the same tools (speak_to for the SellerAgent;
\* teleport_to_location, speak_to and buy_product for the BuyerAgent) with the
\* same observation and the same dialogue history, each has applied the
\* returned plan once, and both models are in the same state.
C17_StepEquivalence ==
    (spc = "done" /\ aspc = "done") =>
        /\ Phases(strace) =
              << "observe", "dialogue extraction", "decision request", "apply_plan" >>
        /\ Phases(atrace) = Phases(strace)
        /\ sreq.selected_tools = areq.selected_tools
        /\ sreq.selected_tools =
              (IF ModelAgents[who].kind = "SellerAgent" THEN { "speak_to" }
               ELSE { "teleport_to_location", "speak_to", "buy_product" })
        /\ given.tool \in sreq.selected_tools
        /\ sreq.obs = areq.obs
        /\ sreq.dialogue_history = areq.dialogue_history
        /\ sworld.applied = << [agent |-> who, plan |-> given] >>
        /\ sworld = aworld

\* C17 witness: step() and astep() of the BuyerAgent have both applied a
\* buy_product plan, the one after reasoning.plan and the other after
\* reasoning.aplan, with a dialogue history of two lines in the prompt.
C17_Witness ==
    /\ spc = "done" /\ aspc = "done"
    /\ ModelAgents[who].kind = "BuyerAgent"
    /\ given.tool = "buy_product"
    /\ strace[3] = "reasoning.plan" /\ atrace[3] = "reasoning.aplan"
    /\ aworld.applied = << [agent |-> who, plan |-> given] >>
    /\ Len(sworld.amem[who]) = 2
    /\ sreq.dialogue_history # NoDialogue
    /\ sreq.prompt = areq.prompt

(***************************************************************************)
(* Properties of the trade protocol                                        *)
(***************************************************************************)
\* C12: every executed increment leaves the pair's combined sugar and combined
\* spice unchanged (while moving goods), every negotiation ends with the
\* combined holdings it began with, and a tick in which nobody harvested
\* reports the Total_Sugar and Total_Spice the Traders held when it began,
\* which are those the tick before reported.
C12_TradeConservation ==
    [][ /\ executed' = executed + 1 =>
            /\ hold' # hold
            /\ hold'["t1"].sugar + hold'["t2"].sugar = hold["t1"].sugar + hold["t2"].sugar
            /\ hold'["t1"].spice + hold'["t2"].spice = hold["t1"].spice + hold["t2"].spice
        /\ (xpc = "negotiating" /\ xpc' = "activating") =>
            /\ hold["t1"].sugar + hold["t2"].sugar = negTotals.sugar
            /\ hold["t1"].spice + hold["t2"].spice = negTotals.spice
        /\ (xpc = "activating" /\ xpc' = "idle" /\ ~xharvested) =>
            /\ xticks >= 2 => xreport' = xreport
            /\ xreport' = tickTotals
            /\ xreport'.sugar = hold["t1"].sugar + hold["t2"].sugar
            /\ xreport'.spice = hold["t1"].spice + hold["t2"].spice ]_vars

\* C12 witness: two ticks have been reported, the second without a harvest,
\* and the last negotiation executed increments
C12_Witness ==
    /\ xpc = "idle"
    /\ xticks = 2
    /\ ~xharvested
    /\ executed >= 2
    /\ xreport = tickTotals
    /\ negTotals = tickTotals

====
